---------------------------- MODULE Spec2Model ----------------------------
(***************************************************************************)
(* Model of the MCP-over-SSE transport of api/app/mcp_server.py:           *)
(* the module-level session registry sse_sessions, the streaming handler   *)
(* mcp_sse_endpoint with its event_generator and deferred cleanup, the     *)
(* intake handler mcp_messages_endpoint and the dispatcher                 *)
(* process_mcp_request.                                                    *)
(*                                                                         *)
(* Every handler runs on one asyncio event loop, so the code between two   *)
(* awaits is one atomic step.  An action below is one such step.           *)
(***************************************************************************)
EXTENDS Integers, Sequences, FiniteSets, TLC

(***************************************************************************)
(* Bounds of the model.                                                    *)
(***************************************************************************)
\* HTTP requests served in one run by the SSE endpoint and the intake
\* endpoint: SSE connects plus intake POSTs
MaxRequests == 3
\* POSTs served in one run by the direct RPC endpoint
MaxRpcRequests == 3

(***************************************************************************)
(* State.                                                                  *)
(***************************************************************************)
VARIABLES
    sse_sessions,   \* the registry: session id -> [user_id, app_id, client, queue]
    queues,         \* the asyncio.Queue objects, by the id of their session
    issued,         \* the values uuid4() has returned for session ids
    genPc,          \* where each event_generator stands
    genClient,      \* the client label its closure holds
    endCause,       \* how each generator left its loop
    connected,      \* whether the client of a stream still holds the connection
    cleanupPc,      \* where each cleanup() background task stands
    wire,           \* the latest frame on each open stream, and whether it
                    \* is the first frame of the stream
    callPc,         \* where each intake POST stands
    callSid,        \* the session id in its path
    callBody,       \* its request body
    callSession,    \* the session record it looked up
    httpReply,      \* its HTTP reply
    sseRejections,  \* the 401 responses of the SSE endpoint, in order
    rpcCount,       \* the POSTs the direct RPC endpoint has answered
    rpcRequest,     \* the latest of them: its credential and its body
    rpcReply,       \* its HTTP reply
    rpcHandler,     \* the tool handler the dispatcher invoked for it
    memories,       \* Storage: the rows of the memories table, oldest first
    vector_store,   \* Search: the texts indexed by the memory client
    memory_client,  \* Search: whether get_memory_client() gives a working client
    database        \* Storage: whether the database answers

(***************************************************************************)
(* Values.                                                                 *)
(***************************************************************************)
SessionIds == 1..MaxRequests
Calls == 1..MaxRequests

\* Python None, and the empty string: both are falsy in "if not api_key"
NoKey == ""

Clients == {"claude"}

\* config.py: DEFAULT_APP_ID
DEFAULT_APP_ID == "default"

\* rows of the api_keys table, numbered in the order of their insertion:
\* the stored hash, the owner, the active flag
ApiKeyTable ==
    { [id |-> 1, key_hash |-> "h:k-alice", user_id |-> "alice",
       is_active |-> TRUE],
      [id |-> 2, key_hash |-> "h:k-bob", user_id |-> "bob",
       is_active |-> TRUE],
      [id |-> 3, key_hash |-> "h:k-old", user_id |-> "alice",
       is_active |-> FALSE] }

\* the credentials presented: the key of an active row, the key of a
\* revoked row, a key of no row
PresentedKeys == {"k-alice", "k-old", "k-wrong"}

\* app.models.hash_api_key: a deterministic digest of the key
hash_api_key(api_key) ==
    CASE api_key = "k-alice" -> "h:k-alice"
      [] api_key = "k-bob"   -> "h:k-bob"
      [] api_key = "k-old"   -> "h:k-old"
      [] OTHER               -> "h:other"

\* the key attribute of an ApiKey row, read by handle_add_memory: the
\* credential the row was provisioned with (the rows are written with
\* key_hash alone; the attribute is a matter of app.models)
ApiKeyOf(record) ==
    CASE record.key_hash = "h:k-alice" -> "k-alice"
      [] record.key_hash = "h:k-bob"   -> "k-bob"
      [] record.key_hash = "h:k-old"   -> "k-old"
      [] OTHER                         -> NoKey

\* auth.py validate_api_key: the user of the active row with that hash, or
\* NoUser (None)
NoUser == ""
validate_api_key(api_key) ==
    LET rows == { r \in ApiKeyTable :
                    r.key_hash = hash_api_key(api_key) /\ r.is_active }
    IN  IF rows = {} THEN NoUser ELSE (CHOOSE r \in rows : TRUE).user_id


(***************************************************************************)
(* JSON-RPC messages.  A response is the record                            *)
(*   [id, tag, code, message]                                              *)
(* tag "result": {"jsonrpc","id","result"}, message holds the result;      *)
(* tag "error":  {"jsonrpc","id","error":{"code","message"}}.              *)
(* An f-string is the sequence of its pieces.                              *)
(***************************************************************************)
\* JSON null / Python None as a request id
NullId == "null"

\* mutant: a result that does not echo the id
ResultMsg_nullId(request_id, result) ==
    [id |-> NullId, tag |-> "result", code |-> 0, message |-> result]

ResultMsg(request_id, result) ==
    [id |-> request_id, tag |-> "result", code |-> 0, message |-> result]
ErrorMsg(request_id, code, message) ==
    [id |-> request_id, tag |-> "error", code |-> code, message |-> message]
NoMsg == [id |-> NullId, tag |-> "none", code |-> 0, message |-> <<>>]

\* request bodies of a POST: text that is no JSON, JSON that is no object,
\* or a JSON object; .get() of an absent key gives NoneStr
NoneStr == "None"
\* args.get("limit", ...) of arguments that hold no limit
NoLimit == -1
\* the arguments of a tool call: absent, an object with the keys it holds
\* (a key it does not hold reads as NoneStr, NoLimit), or a JSON value that
\* is no object
NoArguments ==
    [shape |-> "absent", text |-> NoneStr, query |-> NoneStr, limit |-> NoLimit]
Arguments(text, query) ==
    [shape |-> "object", text |-> text, query |-> query, limit |-> NoLimit]
LimitArguments(query, limit) ==
    [shape |-> "object", text |-> NoneStr, query |-> query, limit |-> limit]
ArrayArguments ==
    [shape |-> "array", text |-> NoneStr, query |-> NoneStr, limit |-> NoLimit]
\* the params of a request: absent, a JSON array, or an object
NoParams == [shape |-> "absent", name |-> NoneStr, arguments |-> NoArguments]
ArrayParams == [shape |-> "array", name |-> NoneStr, arguments |-> NoArguments]
Params(name, arguments) ==
    [shape |-> "object", name |-> name, arguments |-> arguments]

BodyUnparsable ==
    [shape |-> "unparsable", method |-> NoneStr, params |-> NoParams, id |-> NullId]
BodyArray ==
    [shape |-> "array", method |-> NoneStr, params |-> NoParams, id |-> NullId]
BodyObject(method, params, id) ==
    [shape |-> "object", method |-> method, params |-> params, id |-> id]

\* The bodies posted to the intake endpoint: one per path through the
\* handler, with responses that differ from one another
Bodies ==
    { BodyUnparsable, BodyArray,
      BodyObject("initialize", NoParams, "7"),
      BodyObject("tools/call", ArrayParams, "req-a") }

\* params.get("name") of a dict
ToolName(params) == params.name
\* mutant: params.get("arguments"), without the default
ToolArgs_noDefault(params) == params.arguments

\* params.get("arguments", {}) of a dict
ToolArgs(params) ==
    IF params.arguments.shape = "absent"
    THEN Arguments(NoneStr, NoneStr)
    ELSE params.arguments

(***************************************************************************)
(* The tool handlers.  A handler gives [raised, text, memories,            *)
(* vector_store]: whether it left by an exception, the text it returned    *)
(* (or the text of the exception), and Storage and Search after it.        *)
(* The handlers contain no await: each runs in one step.                   *)
(***************************************************************************)
\* "if not text": None and the empty string
Falsy(v) == v \in {NoneStr, ""}

Returned(text, rows, index) ==
    [raised |-> FALSE, text |-> text, memories |-> rows, vector_store |-> index]
\* an exception leaves the handler; add_memory has rolled back
Raised(text) ==
    [raised |-> TRUE, text |-> text, memories |-> memories,
     vector_store |-> vector_store]

\* limit = args.get("limit", 5) and args.get("limit", 10)
SearchDefaultLimit == 5
ListDefaultLimit == 10

\* the first n elements of a sequence (.limit(n), limit=n)
Take(seq, n) == SubSeq(seq, 1, IF Len(seq) < n THEN Len(seq) ELSE n)
\* mutant: the rows are taken oldest first
Reverse_ascending(seq) == seq

\* a sequence back to front (ORDER BY created_at DESC of rows kept oldest first)
Reverse(seq) == [i \in 1..Len(seq) |-> seq[Len(seq) + 1 - i]]

\* args.get("limit", default)
Limit(args, default) == IF args.limit = NoLimit THEN default ELSE args.limit

\* Memory.memory.ilike(f"%{query}%"): the query is part of the text,
\* whatever its case; the memory client is taken to find the same texts
\* similar
Matches(text, query) ==
    <<text, query>> \in {<<"hello", "hello">>, <<"hello", "ELL">>,
                         <<"world", "world">>}

\* mutant: a search without a hit is a failure
NoMatchesFound_raises == Raised(<<"LookupError">>)

\* the text of both search paths when nothing matched
NoMatchesFound ==
    Returned(<<"No memories found matching your query.">>,
             memories, vector_store)

\* "\n".join of the lines f"{i}. {prefix}{text}{suffix}"
RECURSIVE NumberedLines(_, _)
NumberedLines(lines, i) ==
    IF i > Len(lines) THEN <<>>
    ELSE <<ToString(i), ". ">> \o lines[i] \o NumberedLines(lines, i + 1)

\* db.query(ApiKey).filter_by(user_id=...).first(): the rows of a user in the
\* order of the table
ApiKeyRecords(user_id) == { r \in ApiKeyTable : r.user_id = user_id }
FirstApiKeyRecord(user_id) ==
    CHOOSE r \in ApiKeyRecords(user_id) :
        \A q \in ApiKeyRecords(user_id) : r.id <= q.id

\* mutant: the test is whether the user has a memory at all
memory_count_exists(rows, user_id) ==
    IF \E i \in DOMAIN rows : rows[i].user_id = user_id THEN 1 ELSE 0

\* db.query(Memory).filter_by(user_id=user_id).count()
memory_count(rows, user_id) ==
    Cardinality({ i \in DOMAIN rows : rows[i].user_id = user_id })

\* mutant: the failure of memory_client.add is not caught where it
\* happens, so that it reaches the rollback and the dispatcher
handle_add_memory_searchFatal(user_id, app_id, args) ==
    IF args.shape # "object"
    THEN Raised(<<"AttributeError">>)
    ELSE IF Falsy(args.text)
    THEN Returned(<<"Error: 'text' parameter is required">>,
                  memories, vector_store)
    ELSE IF database # "up"
    THEN Raised(<<"OperationalError">>)
    ELSE IF memory_client = "down"
    THEN Raised(<<"ConnectionError">>)
    ELSE LET memory == [id |-> Len(memories) + 1, user_id |-> user_id,
                        app_id |-> app_id, memory |-> args.text]
             rows == Append(memories, memory)
             index == IF memory_client = "up"
                      THEN Append(vector_store,
                                  [user_id |-> user_id, memory |-> args.text])
                      ELSE vector_store
         IN  IF memory_count(rows, user_id) = 1 /\ ApiKeyRecords(user_id) # {}
             THEN Returned(<<"Memory stored successfully! This was your first memory. Your API key for future use is: ",
                             ApiKeyOf(FirstApiKeyRecord(user_id))>>, rows, index)
             ELSE Returned(<<"Memory stored successfully. ID: ",
                             ToString(memory.id)>>, rows, index)

handle_add_memory(user_id, app_id, args) ==
    \* args.get of a value that is no dict
    IF args.shape # "object"
    THEN Raised(<<"AttributeError">>)
    ELSE IF Falsy(args.text)
    THEN Returned(<<"Error: 'text' parameter is required">>,
                  memories, vector_store)
    ELSE IF database # "up"
    THEN Raised(<<"OperationalError">>)
    ELSE LET \* the user of a validated key has its row: no User is created
             memory == [id |-> Len(memories) + 1, user_id |-> user_id,
                        app_id |-> app_id, memory |-> args.text]
             rows == Append(memories, memory)
             \* memory_client.add; its failure is logged and swallowed
             index == IF memory_client = "up"
                      THEN Append(vector_store,
                                  [user_id |-> user_id, memory |-> args.text])
                      ELSE vector_store
         IN  IF memory_count(rows, user_id) = 1 /\ ApiKeyRecords(user_id) # {}
             THEN Returned(<<"Memory stored successfully! This was your first memory. Your API key for future use is: ",
                             ApiKeyOf(FirstApiKeyRecord(user_id))>>, rows, index)
             ELSE Returned(<<"Memory stored successfully. ID: ",
                             ToString(memory.id)>>, rows, index)

\* mutant: the failure of memory_client.search is not caught, so that the
\* database is not searched
handle_search_memories_noFallback(user_id, app_id, args) ==
    IF args.shape # "object"
    THEN Raised(<<"AttributeError">>)
    ELSE IF Falsy(args.query)
    THEN Returned(<<"Error: 'query' parameter is required">>,
                  memories, vector_store)
    ELSE IF memory_client = "up"
    THEN LET Hit(v) == v.user_id = user_id /\ Matches(v.memory, args.query)
             results == Take(SelectSeq(vector_store, Hit),
                             Limit(args, SearchDefaultLimit))
             lines == [i \in 1..Len(results) |->
                         <<results[i].memory, " (relevance: score)">>]
         IN  IF results # <<>>
             THEN Returned(<<"Found ", ToString(Len(results)), " memories:">>
                             \o NumberedLines(lines, 1),
                           memories, vector_store)
             ELSE NoMatchesFound
    ELSE IF memory_client = "down"
    THEN Raised(<<"ConnectionError">>)
    ELSE IF database # "up"
    THEN Raised(<<"OperationalError">>)
    ELSE LET Hit(m) == m.user_id = user_id /\ Matches(m.memory, args.query)
             found == Take(SelectSeq(memories, Hit),
                           Limit(args, SearchDefaultLimit))
             lines == [i \in 1..Len(found) |-> <<found[i].memory>>]
         IN  IF found # <<>>
             THEN Returned(<<"Found ", ToString(Len(found)), " memories:">>
                             \o NumberedLines(lines, 1),
                           memories, vector_store)
             ELSE NoMatchesFound

\* mutant: memory_client.search is called without the user_id
handle_search_memories_unscoped(user_id, app_id, args) ==
    IF args.shape # "object"
    THEN Raised(<<"AttributeError">>)
    ELSE IF Falsy(args.query)
    THEN Returned(<<"Error: 'query' parameter is required">>,
                  memories, vector_store)
    ELSE IF memory_client = "up"
    THEN LET Hit(v) == Matches(v.memory, args.query)
             results == Take(SelectSeq(vector_store, Hit),
                             Limit(args, SearchDefaultLimit))
             lines == [i \in 1..Len(results) |->
                         <<results[i].memory, " (relevance: score)">>]
         IN  IF results # <<>>
             THEN Returned(<<"Found ", ToString(Len(results)), " memories:">>
                             \o NumberedLines(lines, 1),
                           memories, vector_store)
             ELSE NoMatchesFound
    \* no client, or a client that raises: the database search
    ELSE IF database # "up"
    THEN Raised(<<"OperationalError">>)
    ELSE LET Hit(m) == m.user_id = user_id /\ Matches(m.memory, args.query)
             found == Take(SelectSeq(memories, Hit),
                           Limit(args, SearchDefaultLimit))
             lines == [i \in 1..Len(found) |-> <<found[i].memory>>]
         IN  IF found # <<>>
             THEN Returned(<<"Found ", ToString(Len(found)), " memories:">>
                             \o NumberedLines(lines, 1),
                           memories, vector_store)
             ELSE NoMatchesFound

handle_search_memories(user_id, app_id, args) ==
    IF args.shape # "object"
    THEN Raised(<<"AttributeError">>)
    ELSE IF Falsy(args.query)
    THEN Returned(<<"Error: 'query' parameter is required">>,
                  memories, vector_store)
    ELSE IF memory_client = "up"
    THEN LET Hit(v) == v.user_id = user_id /\ Matches(v.memory, args.query)
             results == Take(SelectSeq(vector_store, Hit),
                             Limit(args, SearchDefaultLimit))
             lines == [i \in 1..Len(results) |->
                         <<results[i].memory, " (relevance: score)">>]
         IN  IF results # <<>>
             THEN Returned(<<"Found ", ToString(Len(results)), " memories:">>
                             \o NumberedLines(lines, 1),
                           memories, vector_store)
             ELSE NoMatchesFound
    \* no client, or a client that raises: the database search
    ELSE IF database # "up"
    THEN Raised(<<"OperationalError">>)
    ELSE LET Hit(m) == m.user_id = user_id /\ Matches(m.memory, args.query)
             found == Take(SelectSeq(memories, Hit),
                           Limit(args, SearchDefaultLimit))
             lines == [i \in 1..Len(found) |-> <<found[i].memory>>]
         IN  IF found # <<>>
             THEN Returned(<<"Found ", ToString(Len(found)), " memories:">>
                             \o NumberedLines(lines, 1),
                           memories, vector_store)
             ELSE NoMatchesFound

handle_list_memories(user_id, app_id, args) ==
    IF args.shape # "object"
    THEN Raised(<<"AttributeError">>)
    ELSE IF database # "up"
    THEN Raised(<<"OperationalError">>)
    ELSE LET Own(m) == m.user_id = user_id
             recent == Take(Reverse(SelectSeq(memories, Own)),
                            Limit(args, ListDefaultLimit))
             lines == [i \in 1..Len(recent) |->
                         <<"[", ToString(recent[i].id), "] ", recent[i].memory>>]
         IN  IF recent = <<>>
             THEN Returned(<<"You have no stored memories yet.">>,
                           memories, vector_store)
             ELSE Returned(<<"Your ", ToString(Len(recent)),
                             " most recent memories:">>
                             \o NumberedLines(lines, 1),
                           memories, vector_store)

(***************************************************************************)
(* process_mcp_request: [raised, response, handler, memories,              *)
(* vector_store].  raised is TRUE when the call leaves by an exception     *)
(* (params.get on a value that is no dict, which is outside the try of     *)
(* the tools/call branch); handler is the tool handler that was invoked,   *)
(* with its arguments; memories and vector_store are Storage and Search    *)
(* after the call.                                                         *)
(***************************************************************************)
\* no tool handler was invoked
NoHandler ==
    [name |-> NoneStr, user_id |-> NoUser, app_id |-> "", args |-> NoArguments]

\* a return or a raise of the dispatcher that has called no handler
Dispatched(raised, response) ==
    [raised |-> raised, response |-> response, handler |-> NoHandler,
     memories |-> memories, vector_store |-> vector_store]

\* {"content": [{"type": "text", "text": text}]}
ToolResult(request_id, text) ==
    ResultMsg(request_id, <<"content", "text">> \o text)

\* mutant: the exception of a handler leaves the dispatcher
Handled_propagates(tool_name, user_id, app_id, tool_args, request_id, h) ==
    [raised |-> h.raised,
     response |-> IF h.raised THEN NoMsg ELSE ToolResult(request_id, h.text),
     handler |-> [name |-> tool_name, user_id |-> user_id, app_id |-> app_id,
                  args |-> tool_args],
     memories |-> h.memories, vector_store |-> h.vector_store]

\* the return after a handler: its text, or "Error: " and its exception
Handled(tool_name, user_id, app_id, tool_args, request_id, h) ==
    [raised |-> FALSE,
     response |-> ToolResult(request_id,
                    IF h.raised THEN <<"Error: ">> \o h.text ELSE h.text),
     handler |-> [name |-> tool_name, user_id |-> user_id, app_id |-> app_id,
                  args |-> tool_args],
     memories |-> h.memories, vector_store |-> h.vector_store]

\* mutant: an unknown tool is reported as an unknown method
UnknownTool_methodNotFound(tool_name, request_id) ==
    Dispatched(FALSE, ErrorMsg(request_id, -32601,
                               <<"Method not found: ", tool_name>>))

\* the else branch of tools/call
UnknownTool(tool_name, request_id) ==
    Dispatched(FALSE, ErrorMsg(request_id, -32602,
                               <<"Unknown tool: ", tool_name>>))

\* mutant: the message does not say which method was asked for
MethodNotFound_unnamed(method, request_id) ==
    Dispatched(FALSE, ErrorMsg(request_id, -32601, <<"Method not found">>))

\* the final else branch
MethodNotFound(method, request_id) ==
    Dispatched(FALSE, ErrorMsg(request_id, -32601,
                               <<"Method not found: ", method>>))

\* mutant: the catalog offers the other tools only once a memory exists
ToolCatalog_grows ==
    IF memories = <<>> THEN <<"tools", "add_memory">>
    ELSE <<"tools", "add_memory", "search_memories", "list_memories">>

\* the result of tools/list: the three tool descriptors
ToolCatalog == <<"tools", "add_memory", "search_memories", "list_memories">>

process_mcp_request(method, params, request_id, user_id, app_id) ==
    CASE method = "initialize" ->
           Dispatched(FALSE,
             ResultMsg(request_id,
               <<"protocolVersion", "2025-06-18",
                 "serverInfo", "openmemory-mcp-server", "1.0.0",
                 "capabilities", "tools">>))
      [] method = "tools/list" ->
           Dispatched(FALSE, ResultMsg(request_id, ToolCatalog))
      [] method = "tools/call" ->
           IF params.shape = "array"
           THEN Dispatched(TRUE, NoMsg)
           ELSE LET tool_name == ToolName(params)
                    tool_args == ToolArgs(params)
                IN  CASE tool_name = "add_memory" ->
                           Handled(tool_name, user_id, app_id, tool_args,
                             request_id,
                             handle_add_memory(user_id, app_id, tool_args))
                      [] tool_name = "search_memories" ->
                           Handled(tool_name, user_id, app_id, tool_args,
                             request_id,
                             handle_search_memories(user_id, app_id, tool_args))
                      [] tool_name = "list_memories" ->
                           Handled(tool_name, user_id, app_id, tool_args,
                             request_id,
                             handle_list_memories(user_id, app_id, tool_args))
                      [] OTHER -> UnknownTool(tool_name, request_id)
      [] OTHER -> MethodNotFound(method, request_id)

(***************************************************************************)
(* HTTP replies of the intake endpoint.                                    *)
(***************************************************************************)
NoReply == [status |-> 0, body |-> "none", rpc |-> NoMsg]
\* {"ok": True}
Ack == [status |-> 200, body |-> "ok", rpc |-> NoMsg]
\* a JSON-RPC envelope returned as the HTTP body
RpcReply(m) == [status |-> 200, body |-> "rpc", rpc |-> m]
\* an exception that leaves the handler: the framework answers 500
ServerFault == [status |-> 500, body |-> "fault", rpc |-> NoMsg]

\* mcp_messages_endpoint, the miss branch
InvalidSession == RpcReply(ErrorMsg(NullId, -32600, <<"Invalid session">>))

\* mutant: the response is returned on the HTTP reply, as the direct RPC
\* endpoint does, and nothing is queued
IntakeOutcome_direct(body, session) ==
    CASE body.shape = "unparsable" ->
           [put |-> <<ErrorMsg(NullId, -32603, <<"Internal error">>)>>,
            http |-> Ack,
            memories |-> memories, vector_store |-> vector_store]
      [] body.shape = "array" ->
           [put |-> <<>>, http |-> ServerFault,
            memories |-> memories, vector_store |-> vector_store]
      [] OTHER ->
           LET r == process_mcp_request(body.method, body.params, body.id,
                                        session.user_id, session.app_id)
           IN  IF r.raised
               THEN [put |-> <<ErrorMsg(body.id, -32603, <<"Internal error">>)>>,
                     http |-> Ack,
                     memories |-> r.memories, vector_store |-> r.vector_store]
               ELSE [put |-> <<>>, http |-> RpcReply(r.response),
                     memories |-> r.memories, vector_store |-> r.vector_store]

\* mutant: a statement after the put raises, so that the except clause
\* puts an error response after the response
IntakeOutcome_putTwice(body, session) ==
    CASE body.shape = "unparsable" ->
           [put |-> <<ErrorMsg(NullId, -32603, <<"Internal error">>)>>,
            http |-> Ack,
            memories |-> memories, vector_store |-> vector_store]
      [] body.shape = "array" ->
           [put |-> <<>>, http |-> ServerFault,
            memories |-> memories, vector_store |-> vector_store]
      [] OTHER ->
           LET r == process_mcp_request(body.method, body.params, body.id,
                                        session.user_id, session.app_id)
           IN  IF r.raised
               THEN [put |-> <<ErrorMsg(body.id, -32603, <<"Internal error">>)>>,
                     http |-> Ack,
                     memories |-> r.memories, vector_store |-> r.vector_store]
               ELSE [put |-> <<r.response,
                               ErrorMsg(body.id, -32603, <<"Internal error">>)>>,
                     http |-> Ack,
                     memories |-> r.memories, vector_store |-> r.vector_store]

\* mutant: a fault of the dispatcher is reported on the HTTP reply and
\* nothing is queued for it
IntakeOutcome_faultOnReply(body, session) ==
    CASE body.shape = "unparsable" ->
           [put |-> <<ErrorMsg(NullId, -32603, <<"Internal error">>)>>,
            http |-> Ack,
            memories |-> memories, vector_store |-> vector_store]
      [] body.shape = "array" ->
           [put |-> <<>>, http |-> ServerFault,
            memories |-> memories, vector_store |-> vector_store]
      [] OTHER ->
           LET r == process_mcp_request(body.method, body.params, body.id,
                                        session.user_id, session.app_id)
           IN  IF r.raised
               THEN [put |-> <<>>,
                     http |-> RpcReply(ErrorMsg(body.id, -32603,
                                                <<"Internal error">>)),
                     memories |-> r.memories, vector_store |-> r.vector_store]
               ELSE [put |-> <<r.response>>, http |-> Ack,
                     memories |-> r.memories, vector_store |-> r.vector_store]

(***************************************************************************)
(* mcp_messages_endpoint from "await request.json()" to the return, for a  *)
(* session record that was found: [put, http], put being the messages      *)
(* handed to session["queue"].put, in order.                               *)
(***************************************************************************)
IntakeOutcome(body, session) ==
    CASE body.shape = "unparsable" ->
           \* request.json() raises; rpc_request is not in locals()
           [put |-> <<ErrorMsg(NullId, -32603, <<"Internal error">>)>>,
            http |-> Ack,
            memories |-> memories, vector_store |-> vector_store]
      [] body.shape = "array" ->
           \* rpc_request.get raises AttributeError, and raises it again in
           \* the except clause, which the exception then leaves
           [put |-> <<>>, http |-> ServerFault,
            memories |-> memories, vector_store |-> vector_store]
      [] OTHER ->
           LET r == process_mcp_request(body.method, body.params, body.id,
                                        session.user_id, session.app_id)
           IN  IF r.raised
               THEN [put |-> <<ErrorMsg(body.id, -32603, <<"Internal error">>)>>,
                     http |-> Ack,
                     memories |-> r.memories, vector_store |-> r.vector_store]
               ELSE [put |-> <<r.response>>, http |-> Ack,
                     memories |-> r.memories, vector_store |-> r.vector_store]

(***************************************************************************)
(* GET /mcp/{client}/sse: where the credential may be presented.           *)
(***************************************************************************)
\* an Authorization header: its text up to and after the first blank
NoHeader == [scheme |-> "", credentials |-> ""]
Header(scheme, credentials) == [scheme |-> scheme, credentials |-> credentials]

\* the requests tried: the key as ?key=, as a Bearer token, as X-API-Key,
\* under another scheme, and not at all
SseRequests ==
    { [key |-> k, authorization |-> NoHeader, x_api_key |-> NoKey] :
        k \in PresentedKeys \cup {NoKey} }
    \cup { [key |-> NoKey, authorization |-> Header("Bearer", "k-alice"),
            x_api_key |-> NoKey],
           [key |-> NoKey, authorization |-> Header("Basic", "k-alice"),
            x_api_key |-> NoKey],
           [key |-> NoKey, authorization |-> NoHeader, x_api_key |-> "k-alice"] }

\* mcp_sse_endpoint: the api_key it ends up with
SseApiKey(req) ==
    IF req.key # NoKey THEN req.key
    ELSE IF req.authorization.scheme = "Bearer"
         THEN req.authorization.credentials
         ELSE req.x_api_key

(***************************************************************************)
(* State: its parts, its placeholders, its initial value.                  *)
(***************************************************************************)
sessVars == <<sse_sessions, issued>>
streamVars == <<genPc, genClient, endCause, connected, cleanupPc, wire>>
callVars == <<callPc, callSid, callBody, callSession, httpReply>>
directVars == <<rpcCount, rpcRequest, rpcReply, rpcHandler>>
storeVars == <<memories, vector_store, memory_client, database>>
vars == <<sessVars, streamVars, queues, callVars, sseRejections, directVars,
          storeVars>>

NoBody == [shape |-> "none", method |-> NoneStr, params |-> NoParams, id |-> NullId]
\* no request of the direct RPC endpoint yet
NoRpcRequest ==
    [key |-> NoKey, authorization |-> NoHeader, x_api_key |-> NoKey,
     body |-> NoBody]
NoSession == [user_id |-> NoUser, app_id |-> "", client |-> "", queue |-> 0]

\* frames: the endpoint event, a data line, the keepalive comment
NoFrame ==
    [type |-> "none", client |-> "", session_id |-> 0, msg |-> NoMsg]
\* "event: endpoint" with data /mcp/{client}/messages/{session_id}
EndpointFrame(client, session_id) ==
    [type |-> "endpoint", client |-> client, session_id |-> session_id,
     msg |-> NoMsg]
\* "data: " + json.dumps(message)
DataFrame(message) ==
    [type |-> "data", client |-> "", session_id |-> 0, msg |-> message]
\* ": keepalive", an SSE comment line
KeepaliveFrame ==
    [type |-> "keepalive", client |-> "", session_id |-> 0, msg |-> NoMsg]

\* nothing on the wire: the stream has written no frame yet, or is closed
Silent == [frame |-> NoFrame, first |-> FALSE]

Init ==
    /\ sse_sessions = << >>
    /\ queues = [s \in SessionIds |-> <<>>]
    /\ issued = {}
    /\ genPc = [s \in SessionIds |-> "none"]
    /\ genClient = [s \in SessionIds |-> ""]
    /\ endCause = [s \in SessionIds |-> "none"]
    /\ connected = [s \in SessionIds |-> FALSE]
    /\ cleanupPc = [s \in SessionIds |-> "none"]
    /\ wire = [s \in SessionIds |-> Silent]
    /\ callPc = [c \in Calls |-> "idle"]
    /\ callSid = [c \in Calls |-> 0]
    /\ callBody = [c \in Calls |-> NoBody]
    /\ callSession = [c \in Calls |-> NoSession]
    /\ httpReply = [c \in Calls |-> NoReply]
    /\ sseRejections = <<>>
    /\ rpcCount = 0
    /\ rpcRequest = NoRpcRequest
    /\ rpcReply = NoReply
    /\ rpcHandler = NoHandler
    /\ memories = <<>>
    /\ vector_store = <<>>
    /\ memory_client = "up"
    /\ database = "up"

Registered == DOMAIN sse_sessions

\* the requests served so far by the SSE endpoint and the intake endpoint
Served ==
    Cardinality(issued) + Len(sseRejections)
        + Cardinality({ c \in Calls : callPc[c] # "idle" })

\* d with key k bound to v (d[k] = v of a Python dict)
DictSet(d, k, v) == [x \in (DOMAIN d) \cup {k} |-> IF x = k THEN v ELSE d[x]]
\* d without key k (del d[k])
DictDel(d, k) == [x \in (DOMAIN d) \ {k} |-> d[x]]

(***************************************************************************)
(* mcp_sse_endpoint.  The handler has no await: it runs in one step up to  *)
(* the return of the StreamingResponse.                                    *)
(***************************************************************************)
\* mutant: the session id is not fresh (any id, as a key derived from the
\* caller would be)
uuid4_reused == SessionIds

\* str(uuid4()): a value that was never returned before.  Session ids are
\* opaque, so the least unused value stands for any of them.
uuid4 == { s \in SessionIds \ issued : \A t \in SessionIds \ issued : s <= t }

\* raise HTTPException(status_code=401, detail=...): the framework answers
\* 401 with the body {"detail": ...}
Unauthorized(req, detail) ==
    [request |-> req, status |-> 401, body |-> "detail", rpc |-> NoMsg,
     detail |-> detail]

\* mutant: the session is opened before the credential is looked at, and
\* stays behind when the connect is rejected
SseRejected_afterOpen(req) ==
    /\ Served < MaxRequests
    /\ \/ /\ SseApiKey(req) = NoKey
          /\ sseRejections' =
                Append(sseRejections, Unauthorized(req, "API key required"))
       \/ /\ SseApiKey(req) # NoKey
          /\ validate_api_key(SseApiKey(req)) = NoUser
          /\ sseRejections' =
                Append(sseRejections, Unauthorized(req, "Invalid API key"))
    /\ \E session_id \in uuid4 :
          /\ sse_sessions' = DictSet(sse_sessions, session_id,
                                [user_id |-> NoUser, app_id |-> DEFAULT_APP_ID,
                                 client |-> "", queue |-> session_id])
          /\ issued' = issued \cup {session_id}
    /\ UNCHANGED <<streamVars, queues, callVars, directVars, storeVars>>

\* the credential is missing or is not the key of an active row: HTTP 401
SseRejected(req) ==
    /\ Served < MaxRequests
    /\ \/ /\ SseApiKey(req) = NoKey
          /\ sseRejections' =
                Append(sseRejections, Unauthorized(req, "API key required"))
       \/ /\ SseApiKey(req) # NoKey
          /\ validate_api_key(SseApiKey(req)) = NoUser
          /\ sseRejections' =
                Append(sseRejections, Unauthorized(req, "Invalid API key"))
    /\ UNCHANGED <<sessVars, streamVars, queues, callVars, directVars,
                   storeVars>>

\* the session is registered, cleanup is handed to background_tasks and the
\* response is returned with the generator not yet started
SseAccepted(req, client, session_id) ==
    /\ Served < MaxRequests
    /\ SseApiKey(req) # NoKey
    /\ validate_api_key(SseApiKey(req)) # NoUser
    /\ session_id \in uuid4
    /\ sse_sessions' = DictSet(sse_sessions, session_id,
                         [user_id |-> validate_api_key(SseApiKey(req)),
                          app_id |-> DEFAULT_APP_ID,
                          client |-> client,
                          queue |-> session_id])
    /\ queues' = [queues EXCEPT ![session_id] = <<>>]
    /\ issued' = issued \cup {session_id}
    /\ genPc' = [genPc EXCEPT ![session_id] = "start"]
    /\ genClient' = [genClient EXCEPT ![session_id] = client]
    /\ connected' = [connected EXCEPT ![session_id] = TRUE]
    /\ cleanupPc' = [cleanupPc EXCEPT ![session_id] = "added"]
    /\ wire' = [wire EXCEPT ![session_id] = Silent]
    /\ UNCHANGED <<endCause, callVars,
                   sseRejections, directVars, storeVars>>

mcp_sse_endpoint ==
    \E req \in SseRequests, client \in Clients :
        \/ SseRejected(req)
        \/ \E session_id \in SessionIds : SseAccepted(req, client, session_id)

(***************************************************************************)
(* event_generator.  Its positions: "start" (not yet iterated), "check"    *)
(* (at await request.is_disconnected()), "wait" (at await wait_for(        *)
(* message_queue.get(), 30.0)), "ended" (returned).  A yield hands the     *)
(* frame to the response, which writes it to the wire.                     *)
(***************************************************************************)
\* the response writes one frame
Emit(s, frame) ==
    wire' = [wire EXCEPT ![s] = [frame |-> frame, first |-> (wire[s] = Silent)]]

\* the generator returns: the response is complete and the connection closed
Return(s, cause) ==
    /\ genPc' = [genPc EXCEPT ![s] = "ended"]
    /\ endCause' = [endCause EXCEPT ![s] = cause]
    /\ connected' = [connected EXCEPT ![s] = FALSE]
    /\ wire' = [wire EXCEPT ![s] = Silent]

\* yield of the endpoint event, then on to the loop
GenStart(s) ==
    /\ genPc[s] = "start"
    /\ Emit(s, EndpointFrame(genClient[s], s))
    /\ genPc' = [genPc EXCEPT ![s] = "check"]
    /\ UNCHANGED <<sessVars, genClient, endCause, connected, cleanupPc,
                   queues, callVars,
                   sseRejections, directVars, storeVars>>

\* mutant: a disconnect is acted on only when the queue is empty, what is
\* left in it is still written
GenCheck_drainsFirst(s) ==
    /\ genPc[s] = "check"
    /\ IF connected[s] \/ queues[s] # <<>>
       THEN /\ genPc' = [genPc EXCEPT ![s] = "wait"]
            /\ UNCHANGED <<endCause, connected, wire>>
       ELSE Return(s, "disconnect")
    /\ UNCHANGED <<sessVars, genClient, cleanupPc, queues, callVars,
                   sseRejections, directVars, storeVars>>

\* if await request.is_disconnected(): break
GenCheck(s) ==
    /\ genPc[s] = "check"
    /\ IF connected[s]
       THEN /\ genPc' = [genPc EXCEPT ![s] = "wait"]
            /\ UNCHANGED <<endCause, connected, wire>>
       ELSE Return(s, "disconnect")
    /\ UNCHANGED <<sessVars, genClient, cleanupPc, queues, callVars,
                   sseRejections, directVars, storeVars>>

\* mutant: the queue hands out its newest message (a LifoQueue)
GenDeliver_lifo(s) ==
    /\ genPc[s] = "wait"
    /\ queues[s] # <<>>
    /\ Emit(s, DataFrame(queues[s][Len(queues[s])]))
    /\ queues' = [queues EXCEPT ![s] = SubSeq(@, 1, Len(@) - 1)]
    /\ genPc' = [genPc EXCEPT ![s] = "check"]
    /\ UNCHANGED <<sessVars, genClient, endCause, connected, cleanupPc,
                   callVars,
                   sseRejections, directVars, storeVars>>

\* mutant: the oldest message is read and left in the queue
GenDeliver_peek(s) ==
    /\ genPc[s] = "wait"
    /\ queues[s] # <<>>
    /\ Emit(s, DataFrame(Head(queues[s])))
    /\ genPc' = [genPc EXCEPT ![s] = "check"]
    /\ UNCHANGED <<sessVars, genClient, endCause, connected, cleanupPc,
                   queues, callVars,
                   sseRejections, directVars, storeVars>>

\* message_queue.get() returns the oldest message, which is yielded
GenDeliver(s) ==
    /\ genPc[s] = "wait"
    /\ queues[s] # <<>>
    /\ Emit(s, DataFrame(Head(queues[s])))
    /\ queues' = [queues EXCEPT ![s] = Tail(@)]
    /\ genPc' = [genPc EXCEPT ![s] = "check"]
    /\ UNCHANGED <<sessVars, genClient, endCause, connected, cleanupPc,
                   callVars,
                   sseRejections, directVars, storeVars>>

\* mutant: the heartbeat sends the endpoint event again
GenTimeout_readvertise(s) ==
    /\ genPc[s] = "wait"
    /\ queues[s] = <<>>
    /\ Emit(s, EndpointFrame(genClient[s], s))
    /\ genPc' = [genPc EXCEPT ![s] = "check"]
    /\ UNCHANGED <<sessVars, genClient, endCause, connected, cleanupPc,
                   queues, callVars,
                   sseRejections, directVars, storeVars>>

\* mutant: the timeout is taken for a dead client and ends the stream
GenTimeout_closes(s) ==
    /\ genPc[s] = "wait"
    /\ queues[s] = <<>>
    /\ Return(s, "timeout")
    /\ UNCHANGED <<sessVars, genClient, cleanupPc, queues, callVars,
                   sseRejections, directVars, storeVars>>

\* mutant: the timeout is a request deadline: the intake calls of the
\* session that are still being processed fail
GenTimeout_deadline(s) ==
    /\ genPc[s] = "wait"
    /\ queues[s] = <<>>
    /\ Emit(s, KeepaliveFrame)
    /\ genPc' = [genPc EXCEPT ![s] = "check"]
    /\ callPc' = [c \in Calls |->
                    IF callPc[c] = "parsing" /\ callSid[c] = s
                    THEN "done" ELSE callPc[c]]
    /\ httpReply' = [c \in Calls |->
                       IF callPc[c] = "parsing" /\ callSid[c] = s
                       THEN ServerFault ELSE httpReply[c]]
    /\ UNCHANGED <<sessVars, genClient, endCause, connected, cleanupPc,
                   queues, callSid, callBody, callSession,
                   sseRejections, directVars, storeVars>>

\* asyncio.TimeoutError after 30 s with nothing in the queue
GenTimeout(s) ==
    /\ genPc[s] = "wait"
    /\ queues[s] = <<>>
    /\ Emit(s, KeepaliveFrame)
    /\ genPc' = [genPc EXCEPT ![s] = "check"]
    /\ UNCHANGED <<sessVars, genClient, endCause, connected, cleanupPc,
                   queues, callVars,
                   sseRejections, directVars, storeVars>>

\* the streaming task is cancelled (client abort seen by the response, or
\* server shutdown): CancelledError at an await is caught and breaks the
\* loop; a generator that is not iterated any more yields nothing
GenCancelled(s) ==
    /\ genPc[s] \in {"start", "check", "wait"}
    /\ Return(s, "cancelled")
    /\ UNCHANGED <<sessVars, genClient, cleanupPc, queues, callVars,
                   sseRejections, directVars, storeVars>>

\* an Exception raised at an await of the loop is logged and breaks it
GenException(s) ==
    /\ genPc[s] \in {"check", "wait"}
    /\ Return(s, "exception")
    /\ UNCHANGED <<sessVars, genClient, cleanupPc, queues, callVars,
                   sseRejections, directVars, storeVars>>

event_generator ==
    \E s \in SessionIds :
        \/ GenStart(s)
        \/ GenCheck(s)
        \/ GenDeliver(s)
        \/ GenTimeout(s)
        \/ GenCancelled(s)
        \/ GenException(s)

\* the client drops the connection of its stream
ClientDisconnect ==
    \E s \in SessionIds :
        /\ genPc[s] \in {"start", "check", "wait"}
        /\ connected[s]
        /\ connected' = [connected EXCEPT ![s] = FALSE]
        /\ UNCHANGED <<sessVars, genPc, genClient, endCause, cleanupPc, wire,
                       queues, callVars,
                   sseRejections, directVars, storeVars>>

(***************************************************************************)
(* cleanup, a task of the request's BackgroundTasks: the framework runs    *)
(* the tasks of a response once the response has been sent, for a          *)
(* StreamingResponse once its generator is exhausted.                      *)
(***************************************************************************)
\* mutant: cleanup is started only where the loop sees the disconnect
BackgroundTasksRun_onBreakOnly(s) ==
    genPc[s] = "ended" /\ endCause[s] = "disconnect"

\* mutant: cleanup is started as a task of its own at connect
BackgroundTasksRun_atConnect(s) == TRUE

\* mutant: cleanup is started when the response has begun, not when it is
\* complete
BackgroundTasksRun_onceStreaming(s) == genPc[s] \in {"check", "wait", "ended"}

BackgroundTasksRun(s) == genPc[s] = "ended"

\* mutant: the test is inverted, nothing is deleted
Cleanup_keeps(s) ==
    /\ cleanupPc[s] = "added"
    /\ BackgroundTasksRun(s)
    /\ cleanupPc' = [cleanupPc EXCEPT ![s] = "done"]
    /\ UNCHANGED <<sessVars, genPc, genClient, endCause, connected, wire,
                   queues, callVars,
                   sseRejections, directVars, storeVars>>

\* mutant: the entry is emptied field by field and its key is left behind
Cleanup_partial(s) ==
    /\ cleanupPc[s] = "added"
    /\ BackgroundTasksRun(s)
    /\ sse_sessions' = IF s \in Registered
                       THEN DictSet(sse_sessions, s,
                              [sse_sessions[s] EXCEPT !.queue = 0])
                       ELSE sse_sessions
    /\ cleanupPc' = [cleanupPc EXCEPT ![s] = "done"]
    /\ UNCHANGED <<issued, genPc, genClient, endCause, connected, wire,
                   queues, callVars,
                   sseRejections, directVars, storeVars>>

\* await asyncio.sleep(1), then
\* if session_id in sse_sessions: del sse_sessions[session_id]
Cleanup(s) ==
    /\ cleanupPc[s] = "added"
    /\ BackgroundTasksRun(s)
    /\ sse_sessions' = IF s \in Registered THEN DictDel(sse_sessions, s)
                       ELSE sse_sessions
    /\ cleanupPc' = [cleanupPc EXCEPT ![s] = "done"]
    /\ UNCHANGED <<issued, genPc, genClient, endCause, connected, wire,
                   queues, callVars,
                   sseRejections, directVars, storeVars>>

cleanup == \E s \in SessionIds : Cleanup(s)

(***************************************************************************)
(* mcp_messages_endpoint.  Its one suspension is await request.json(),     *)
(* which is where the body comes in.                                       *)
(***************************************************************************)
\* mutant: sse_sessions[session_id] instead of .get: a miss raises KeyError
IntakeLookup_keyerror(c, session_id) ==
    /\ Served < MaxRequests
    /\ callPc[c] = "idle"
    /\ \A b \in Calls : b < c => callPc[b] # "idle"
    /\ callSid' = [callSid EXCEPT ![c] = session_id]
    /\ IF session_id \in Registered
       THEN /\ callSession' = [callSession EXCEPT ![c] = sse_sessions[session_id]]
            /\ callPc' = [callPc EXCEPT ![c] = "parsing"]
            /\ UNCHANGED httpReply
       ELSE /\ httpReply' = [httpReply EXCEPT ![c] = ServerFault]
            /\ callPc' = [callPc EXCEPT ![c] = "done"]
            /\ UNCHANGED callSession
    /\ UNCHANGED <<sessVars, streamVars, queues, callBody, sseRejections,
                   directVars, storeVars>>

\* mutant: the registry is a defaultdict, so that the lookup of a missing
\* id leaves an entry behind
IntakeLookup_defaultdict(c, session_id) ==
    /\ Served < MaxRequests
    /\ callPc[c] = "idle"
    /\ \A b \in Calls : b < c => callPc[b] # "idle"
    /\ callSid' = [callSid EXCEPT ![c] = session_id]
    /\ IF session_id \in Registered
       THEN /\ callSession' = [callSession EXCEPT ![c] = sse_sessions[session_id]]
            /\ callPc' = [callPc EXCEPT ![c] = "parsing"]
            /\ UNCHANGED <<httpReply, sse_sessions>>
       ELSE /\ httpReply' = [httpReply EXCEPT ![c] = InvalidSession]
            /\ callPc' = [callPc EXCEPT ![c] = "done"]
            /\ sse_sessions' = DictSet(sse_sessions, session_id, NoSession)
            /\ UNCHANGED callSession
    /\ UNCHANGED <<issued, streamVars, queues, callBody, sseRejections,
                   directVars, storeVars>>

\* sse_sessions.get(session_id); a miss returns the error envelope at once
IntakeLookup(c, session_id) ==
    /\ Served < MaxRequests
    /\ callPc[c] = "idle"
    /\ \A b \in Calls : b < c => callPc[b] # "idle"
    /\ callSid' = [callSid EXCEPT ![c] = session_id]
    /\ IF session_id \in Registered
       THEN /\ callSession' = [callSession EXCEPT ![c] = sse_sessions[session_id]]
            /\ callPc' = [callPc EXCEPT ![c] = "parsing"]
            /\ UNCHANGED httpReply
       ELSE /\ httpReply' = [httpReply EXCEPT ![c] = InvalidSession]
            /\ callPc' = [callPc EXCEPT ![c] = "done"]
            /\ UNCHANGED callSession
    /\ UNCHANGED <<sessVars, streamVars, queues, callBody, sseRejections,
                   directVars, storeVars>>

\* mutant: the request runs under the user of the session that was opened
\* last (one current user for the whole server)
IntakeProcess_latestUser(c, body) ==
    /\ callPc[c] = "parsing"
    /\ LET latest == IF Registered = {} THEN callSession[c]
                     ELSE sse_sessions[CHOOSE s \in Registered :
                                         \A t \in Registered : t <= s]
           out == IntakeOutcome(body, [callSession[c] EXCEPT
                                         !.user_id = latest.user_id])
           q == callSession[c].queue
       IN  /\ queues' = [queues EXCEPT ![q] = @ \o out.put]
           /\ httpReply' = [httpReply EXCEPT ![c] = out.http]
           /\ memories' = out.memories
           /\ vector_store' = out.vector_store
    /\ callPc' = [callPc EXCEPT ![c] = "done"]
    /\ callBody' = [callBody EXCEPT ![c] = body]
    /\ UNCHANGED <<sessVars, streamVars, callSid, callSession, sseRejections,
                   directVars, memory_client, database>>

\* mutant: the response is put on the queue of every registered session of
\* the user, as if the user were the key that joins call and stream
IntakeProcess_byUser(c, body) ==
    /\ callPc[c] = "parsing"
    /\ LET out == IntakeOutcome(body, callSession[c])
       IN  /\ queues' = [q \in DOMAIN queues |->
                           IF /\ q \in Registered
                              /\ sse_sessions[q].user_id = callSession[c].user_id
                           THEN queues[q] \o out.put
                           ELSE queues[q]]
           /\ httpReply' = [httpReply EXCEPT ![c] = out.http]
           /\ memories' = out.memories
           /\ vector_store' = out.vector_store
    /\ callPc' = [callPc EXCEPT ![c] = "done"]
    /\ callBody' = [callBody EXCEPT ![c] = body]
    /\ UNCHANGED <<sessVars, streamVars, callSid, callSession, sseRejections,
                   directVars, memory_client, database>>

\* the body is read, the request dispatched, the response put on
\* session["queue"], the acknowledgement returned
IntakeProcess(c, body) ==
    /\ callPc[c] = "parsing"
    /\ LET out == IntakeOutcome(body, callSession[c])
           q == callSession[c].queue
       IN  /\ queues' = [queues EXCEPT ![q] = @ \o out.put]
           /\ httpReply' = [httpReply EXCEPT ![c] = out.http]
           /\ memories' = out.memories
           /\ vector_store' = out.vector_store
    /\ callPc' = [callPc EXCEPT ![c] = "done"]
    /\ callBody' = [callBody EXCEPT ![c] = body]
    /\ UNCHANGED <<sessVars, streamVars, callSid, callSession, sseRejections,
                   directVars, memory_client, database>>

\* the ids posted to: every id that was issued, and one that was not
PostTargets == issued \cup uuid4

mcp_messages_endpoint ==
    \E c \in Calls :
        \/ \E session_id \in PostTargets : IntakeLookup(c, session_id)
        \/ \E body \in Bodies : IntakeProcess(c, body)

(***************************************************************************)
(* mcp_rpc_endpoint, POST /mcp/{client}/rpc.  It shares no state with the  *)
(* sessions; its one suspension, await request.json(), comes after the     *)
(* credential check, which reads nothing that changes, so a request is one *)
(* step.                                                                   *)
(***************************************************************************)
\* the api_key it ends up with: ?key=, else the X-API-Key header
RpcApiKey(req) == IF req.key # NoKey THEN req.key ELSE req.x_api_key

\* the requests tried: those of the SSE endpoint, and the key of a second
\* user
RpcRequests ==
    SseRequests
    \cup { [key |-> "k-bob", authorization |-> NoHeader, x_api_key |-> NoKey] }

\* the ids a caller may choose: a number, a string, null
RequestIds == {"7", "req-a", NullId}

\* method and params of the requests posted to the direct endpoint
RpcCalls ==
    { <<"initialize", NoParams>>,
      <<"tools/list", NoParams>>,
      <<"resources/list", NoParams>>,
      <<"tools/invoke", Params("add_memory", Arguments("hello", NoneStr))>>,
      <<NoneStr, NoParams>>,
      <<"tools/call", NoParams>>,
      <<"tools/call", ArrayParams>>,
      <<"tools/call", Params("forget_all", Arguments("hello", NoneStr))>>,
      <<"tools/call", Params(NoneStr, Arguments("hello", NoneStr))>>,
      <<"tools/call", Params("add_memory", NoArguments)>>,
      <<"tools/call", Params("add_memory", ArrayArguments)>>,
      <<"tools/call", Params("add_memory", Arguments("hello", NoneStr))>>,
      <<"tools/call", Params("search_memories", NoArguments)>>,
      <<"tools/call", Params("search_memories", Arguments(NoneStr, "ELL"))>>,
      <<"tools/call", Params("search_memories", Arguments(NoneStr, "zzz"))>>,
      <<"tools/call", Params("list_memories", NoArguments)>>,
      <<"tools/call", Params("list_memories", LimitArguments(NoneStr, 1))>> }

\* the calls that are posted with every kind of id: one for each way the
\* dispatcher returns
RpcCallsOfEveryId ==
    { <<"initialize", NoParams>>,
      <<"tools/list", NoParams>>,
      <<"resources/list", NoParams>>,
      <<"tools/call", Params("forget_all", Arguments("hello", NoneStr))>>,
      <<"tools/call", Params("list_memories", NoArguments)>> }

\* the bodies posted to the direct endpoint
RpcBodies ==
    { BodyUnparsable, BodyArray }
    \cup { BodyObject(c[1], c[2], "7") : c \in RpcCalls }
    \cup { BodyObject(c[1], c[2], i) : c \in RpcCallsOfEveryId, i \in RequestIds }

\* the bodies the second user posts
OtherUserBodies ==
    { BodyObject("tools/list", NoParams, "7"),
      BodyObject("tools/call", Params("add_memory", Arguments("world", NoneStr)), "7"),
      BodyObject("tools/call", Params("list_memories", NoArguments), "7") }

\* the bodies tried with a request: none is read before the credential was
\* accepted
BodiesOf(req) ==
    IF RpcApiKey(req) = NoKey \/ validate_api_key(RpcApiKey(req)) = NoUser
    THEN {NoBody}
    ELSE IF validate_api_key(RpcApiKey(req)) = "bob" THEN OtherUserBodies
    ELSE RpcBodies

\* the reply to a request without a usable credential: nothing is read or
\* called
RpcRefused(message) ==
    [http |-> RpcReply(ErrorMsg(NullId, -32700, <<message>>)),
     handler |-> NoHandler,
     memories |-> memories, vector_store |-> vector_store]

\* the handler from "Parse JSON-RPC request" to its return:
\* [http, handler, memories, vector_store]
RpcOutcome(body, user_id, app_id) ==
    CASE body.shape = "unparsable" ->
           \* request.json() raises, which is caught
           RpcRefused("Parse error")
      [] body.shape = "array" ->
           \* rpc_request.get raises AttributeError, which nothing catches
           [http |-> ServerFault, handler |-> NoHandler,
            memories |-> memories, vector_store |-> vector_store]
      [] OTHER ->
           LET r == process_mcp_request(body.method, body.params, body.id,
                                        user_id, app_id)
           IN  [http |-> IF r.raised THEN ServerFault ELSE RpcReply(r.response),
                handler |-> r.handler,
                memories |-> r.memories, vector_store |-> r.vector_store]

\* mutant: the response is also put on the queues of the caller's sessions
RpcAnswer_enqueues(req, body, out) ==
    /\ rpcCount < MaxRpcRequests
    /\ rpcCount' = rpcCount + 1
    /\ rpcRequest' = [key |-> req.key, authorization |-> req.authorization,
                      x_api_key |-> req.x_api_key, body |-> body]
    /\ rpcReply' = out.http
    /\ rpcHandler' = out.handler
    /\ memories' = out.memories
    /\ vector_store' = out.vector_store
    /\ queues' = [q \in DOMAIN queues |->
                    IF /\ q \in Registered
                       /\ sse_sessions[q].user_id = validate_api_key(RpcApiKey(req))
                       /\ out.http.body = "rpc"
                    THEN Append(queues[q], out.http.rpc)
                    ELSE queues[q]]
    /\ UNCHANGED <<sessVars, streamVars, callVars, sseRejections,
                   memory_client, database>>

\* one request: body is the body the handler has read, NoBody when it
\* returned before reading it
RpcAnswer(req, body, out) ==
    /\ rpcCount < MaxRpcRequests
    /\ rpcCount' = rpcCount + 1
    /\ rpcRequest' = [key |-> req.key, authorization |-> req.authorization,
                      x_api_key |-> req.x_api_key, body |-> body]
    /\ rpcReply' = out.http
    /\ rpcHandler' = out.handler
    /\ memories' = out.memories
    /\ vector_store' = out.vector_store
    /\ UNCHANGED <<sessVars, streamVars, queues, callVars, sseRejections,
                   memory_client, database>>

\* a request with its credential and its body; the body is read only
\* after the credential was accepted
RpcCall(req, body) ==
    IF RpcApiKey(req) = NoKey
    THEN RpcAnswer(req, NoBody, RpcRefused("API key required"))
    ELSE IF validate_api_key(RpcApiKey(req)) = NoUser
    THEN RpcAnswer(req, NoBody, RpcRefused("Invalid API key"))
    ELSE RpcAnswer(req, body,
                   RpcOutcome(body, validate_api_key(RpcApiKey(req)),
                              DEFAULT_APP_ID))

mcp_rpc_endpoint ==
    \E req \in RpcRequests : \E body \in BodiesOf(req) : RpcCall(req, body)

\* the collaborators come and go: the memory client is there and works
\* ("up"), is not configured (get_memory_client() gives None, "none") or
\* raises ("down"); the database answers or does not
CollaboratorsChange ==
    \E m \in {"up", "none", "down"}, d \in {"up", "down"} :
        /\ <<m, d>> # <<memory_client, database>>
        /\ memory_client' = m
        /\ database' = d
        /\ UNCHANGED <<sessVars, streamVars, queues, callVars, sseRejections,
                       directVars, memories, vector_store>>

Next ==
    \/ mcp_sse_endpoint
    \/ event_generator
    \/ cleanup
    \/ mcp_messages_endpoint
    \/ ClientDisconnect

Spec == Init /\ [][Next]_vars

\* the event loop runs every task that can run: a cleanup task that the
\* framework has started sleeps its second and goes on
FairSpec ==
    /\ Spec
    /\ WF_vars(cleanup)

\* the direct RPC endpoint, the dispatcher and the tool handlers, with the
\* collaborators they call
RpcNext ==
    \/ mcp_rpc_endpoint
    \/ CollaboratorsChange

RpcSpec == Init /\ [][RpcNext]_vars

\* the calls made on both paths to the dispatcher
PathCalls ==
    { <<"initialize", NoParams>>,
      <<"tools/call", ArrayParams>>,
      <<"tools/call", Params("add_memory", Arguments("hello", NoneStr))>>,
      <<"tools/call", Params("list_memories", NoArguments)>> }

PathBodies == { BodyObject(c[1], c[2], "7") : c \in PathCalls }

\* the connects: two users open sessions
PathConnects ==
    { [key |-> k, authorization |-> NoHeader, x_api_key |-> NoKey] :
        k \in {"k-alice", "k-bob"} }

\* a user of the sessions calls the direct endpoint with the same key
PathRequests ==
    { [key |-> "k-alice", authorization |-> NoHeader, x_api_key |-> NoKey] }

\* the two paths to the dispatcher side by side, over the same Storage and
\* Search, which work: sessions are opened and posted to, and the direct
\* endpoint is called, while no stream takes anything off its queue
PathsNext ==
    \/ \E req \in PathConnects, client \in Clients, session_id \in SessionIds :
          SseAccepted(req, client, session_id)
    \/ \E c \in Calls, session_id \in PostTargets : IntakeLookup(c, session_id)
    \/ \E c \in Calls, body \in PathBodies : IntakeProcess(c, body)
    \/ \E req \in PathRequests, body \in PathBodies : RpcCall(req, body)

PathsSpec == Init /\ [][PathsNext]_vars

(***************************************************************************)
(* Properties.                                                             *)
(***************************************************************************)
Attached(s) == genPc[s] \in {"start", "check", "wait"}

\* C1: on every stream the first frame is the endpoint frame, carrying the
\* intake path with the client label and the session id of that connection,
\* and every later frame is a data frame or a keepalive frame, never a
\* second endpoint frame.
EndpointFrameFirstAndOnce ==
    \A s \in SessionIds :
        wire[s] # Silent =>
            /\ wire[s].frame.type \in {"endpoint", "data", "keepalive"}
            /\ wire[s].first <=> wire[s].frame.type = "endpoint"
            /\ wire[s].first => wire[s].frame = EndpointFrame(genClient[s], s)

\* a stream that has written its endpoint frame and then a later frame
EndpointThenLaterFrame ==
    \E s \in SessionIds :
        /\ Attached(s)
        /\ ~wire[s].first
        /\ wire[s].frame.type \in {"data", "keepalive"}

\* C2: a queue changes only by a message joining at its tail or by its
\* oldest message leaving as the data frame written in that step, and a data
\* frame is written only so: messages of one session are delivered in the
\* order they were enqueued.
DeliveryInEnqueueOrder ==
    [][\A s \in SessionIds :
          /\ \/ queues'[s] = queues[s]
             \/ /\ Len(queues'[s]) = Len(queues[s]) + 1
                /\ SubSeq(queues'[s], 1, Len(queues[s])) = queues[s]
             \/ /\ queues[s] # <<>>
                /\ queues'[s] = Tail(queues[s])
                /\ wire'[s].frame = DataFrame(Head(queues[s]))
          /\ (wire'[s] # wire[s] /\ wire'[s].frame.type = "data") =>
                /\ queues[s] # <<>>
                /\ queues'[s] = Tail(queues[s])
                /\ wire'[s].frame = DataFrame(Head(queues[s]))]_vars

\* the older of two different queued messages has been delivered, the
\* younger still waits
OlderDeliveredYoungerQueued ==
    \E s \in SessionIds :
        /\ wire[s].frame.type = "data"
        /\ queues[s] # <<>>
        /\ Head(queues[s]) # wire[s].frame.msg

\* C3: the session id of every connect was never issued before; a connect
\* never takes the id of a session that exists or existed, so it overwrites
\* no registry entry, and every registered id was issued.
SessionIdsNeverReused ==
    [][\A s \in SessionIds :
          /\ (genPc'[s] = "start" /\ genPc[s] # "start") =>
                s \notin issued /\ s \notin Registered /\ genPc[s] = "none"
          /\ s \in Registered' => s \in issued'
          /\ (s \in Registered /\ s \in Registered') =>
                sse_sessions'[s] = sse_sessions[s]]_vars

\* two sessions registered at the same time
TwoSessionsRegistered == Cardinality(Registered) >= 2

\* C4: an intake POST to an id that is not registered (never issued, or
\* issued and removed) is answered in the step of its lookup, with the
\* invalid-session envelope as the HTTP reply.
UnknownSessionAnsweredAtOnce ==
    [][\A c \in Calls :
          (callPc[c] = "idle" /\ callPc'[c] # "idle"
              /\ callSid'[c] \notin Registered) =>
                /\ callPc'[c] = "done"
                /\ httpReply'[c] = InvalidSession]_vars

\* a POST to an id that was not issued got the invalid-session envelope
NeverIssuedIdRefused ==
    \E c \in Calls :
        /\ callPc[c] = "done"
        /\ callSid[c] \notin issued
        /\ httpReply[c] = InvalidSession

\* C5: the step in which an intake POST gets the invalid-session reply
\* changes neither the registry nor any queue, and that POST never reads a
\* body nor reaches the dispatcher.
InvalidSessionTouchesNothing ==
    [][\A c \in Calls :
          (httpReply[c] # InvalidSession /\ httpReply'[c] = InvalidSession) =>
                /\ sse_sessions' = sse_sessions
                /\ queues' = queues
                /\ callPc[c] = "idle"
                /\ callBody'[c] = NoBody
                /\ callSession'[c] = NoSession]_vars

\* a POST refused while another session holds a queued message
RefusedWhileMessageQueued ==
    \E c \in Calls, s \in SessionIds :
        /\ httpReply[c] = InvalidSession
        /\ s \in Registered
        /\ queues[s] # <<>>

\* C6: when an intake POST finds its session and the dispatcher returns a
\* response for its request, that response joins the tail of that session's
\* queue and the HTTP reply is the bare acknowledgement; the HTTP reply of a
\* POST that found its session never carries a JSON-RPC envelope.
ResultQueuedReplyAcknowledges ==
    /\ [][\A c \in Calls :
            (callPc[c] = "parsing" /\ callPc'[c] = "done") =>
               LET b == callBody'[c]
                   session == callSession[c]
                   r == process_mcp_request(b.method, b.params, b.id,
                                            session.user_id, session.app_id)
               IN  (b.shape = "object" /\ ~r.raised) =>
                      /\ session.queue = callSid[c]
                      /\ queues'[callSid[c]] = Append(queues[callSid[c]], r.response)
                      /\ httpReply'[c] = Ack]_vars
    /\ [](\A c \in Calls :
            callSession[c] # NoSession => httpReply[c].body # "rpc")

\* the result of an acknowledged initialize request is the data frame on
\* the wire of the session it was posted to
AcknowledgedResultOnItsStream ==
    \E c \in Calls :
        /\ callPc[c] = "done"
        /\ httpReply[c] = Ack
        /\ callBody[c] = BodyObject("initialize", NoParams, "7")
        /\ wire[callSid[c]].frame =
              DataFrame(process_mcp_request("initialize", NoParams, "7",
                          callSession[c].user_id, callSession[c].app_id).response)

\* C7: the step of an intake call leaves every queue but one as it was and
\* puts at most one message on that one, on the exception path too.
OneCallOneMessageAtMost ==
    [][\A c \in Calls :
          callPc'[c] # callPc[c] =>
             \E q \in SessionIds :
                /\ \A s \in SessionIds \ {q} : queues'[s] = queues[s]
                /\ Len(queues'[q]) \in {Len(queues[q]), Len(queues[q]) + 1}
                /\ SubSeq(queues'[q], 1, Len(queues[q])) = queues[q]]_vars

\* a POST whose body could not be parsed was acknowledged and left the one
\* internal-error response in a queue
ExceptionPathQueuedOneError ==
    \E c \in Calls, s \in SessionIds :
        /\ callPc[c] = "done"
        /\ callBody[c] = BodyUnparsable
        /\ httpReply[c] = Ack
        /\ queues[s] = <<ErrorMsg(NullId, -32603, <<"Internal error">>)>>

\* C8: once the cleanup of a session has run (its stream ended, the grace
\* period elapsed), the session id is not in the registry, and every intake
\* POST to it from then on gets the invalid-session reply.
ClosedSessionRefused ==
    /\ [](\A s \in SessionIds : cleanupPc[s] = "done" => s \notin Registered)
    /\ [][\A c \in Calls :
            (callPc[c] = "idle" /\ callPc'[c] # "idle"
                /\ cleanupPc[callSid'[c]] = "done") =>
               /\ callPc'[c] = "done"
               /\ httpReply'[c] = InvalidSession]_vars

\* a session whose loop saw the disconnect was cleaned up, and a POST to its
\* id was refused
PostAfterDisconnectRefused ==
    \E c \in Calls, s \in SessionIds :
        /\ endCause[s] = "disconnect"
        /\ cleanupPc[s] = "done"
        /\ callPc[c] = "done"
        /\ callSid[c] = s
        /\ httpReply[c] = InvalidSession

\* C9: a session whose stream has ended, by the disconnect seen in the loop,
\* by an exception or by a cancellation, does not stay registered: again and
\* again the registry holds no session whose stream has ended, and since an
\* ended stream stays ended and a removed id stays removed, every such
\* session is eventually removed.
DetachedSessionEventuallyRemoved ==
    []<>(\A s \in SessionIds : genPc[s] = "ended" => s \notin Registered)

\* a session whose streaming task was cancelled has been removed
CancelledSessionRemoved ==
    \E s \in SessionIds :
        /\ endCause[s] = "cancelled"
        /\ cleanupPc[s] = "done"
        /\ s \notin Registered

\* the phases of a session id: 0 not issued, 1 Active (registered, stream
\* attached), 2 Draining (registered, stream ended), 3 Closed (removed)
Phase(s) ==
    IF s \in Registered
    THEN IF Attached(s) THEN 1 ELSE 2
    ELSE IF s \in issued THEN 3 ELSE 0

\* C10: a session id never moves back to an earlier phase; its entry is
\* inserted only when the id was not issued, and removed only when its
\* stream has ended with the cleanup pending.
LifecycleForwardOnly ==
    [][\A s \in SessionIds :
          /\ Phase(s)' >= Phase(s)
          /\ (s \in Registered' /\ s \notin Registered) => Phase(s) = 0
          /\ (s \in Registered /\ s \notin Registered') =>
                /\ Phase(s) = 2
                /\ genPc[s] = "ended"
                /\ cleanupPc[s] = "added"]_vars

\* one session Closed after an exception in its generator while another
\* is Active
ClosedBesideActive ==
    \E s, t \in SessionIds :
        /\ Phase(s) = 3
        /\ endCause[s] = "exception"
        /\ Phase(t) = 1

\* the step in which the wait on the queue of s times out: the generator
\* leaves its wait with nothing taken from the queue and is not ended
TimedOut(s) ==
    /\ genPc[s] = "wait"
    /\ queues[s] = <<>>
    /\ genPc'[s] = "check"

\* C11: when the wait on an empty queue times out, the frame written is the
\* keepalive comment (not a data frame, not the first frame), the generator
\* is back at the head of its loop and the session is still registered; a
\* stream never ends because of the timeout; a keepalive is written in no
\* other step; and a message enqueued after the keepalive can be taken, the
\* next frame after the keepalive being the data frame of the oldest queued
\* message unless the stream closes.
KeepaliveKeepsStreamOpen ==
    /\ [][\A s \in SessionIds :
            /\ TimedOut(s) =>
                  /\ wire'[s] = [frame |-> KeepaliveFrame, first |-> FALSE]
                  /\ s \in Registered /\ s \in Registered'
                  /\ sse_sessions'[s] = sse_sessions[s]
            /\ (genPc[s] = "wait" /\ queues[s] = <<>> /\ genPc'[s] = "ended") =>
                  endCause'[s] \in {"cancelled", "exception"}
            /\ (wire'[s] # wire[s] /\ wire'[s].frame = KeepaliveFrame) =>
                  TimedOut(s)
            /\ (wire[s].frame = KeepaliveFrame /\ wire'[s] # wire[s]) =>
                  \/ /\ queues[s] # <<>>
                     /\ wire'[s].frame = DataFrame(Head(queues[s]))
                  \/ /\ wire'[s] = Silent
                     /\ genPc'[s] = "ended"]_vars
    /\ [](\A s \in SessionIds :
            /\ (genPc[s] = "wait" /\ queues[s] = <<>>) => ENABLED GenTimeout(s)
            /\ (genPc[s] = "wait" /\ queues[s] # <<>>) => ENABLED GenDeliver(s))

\* the keepalive is the latest frame of a stream whose client is connected
\* and whose generator waits on a queue holding a message: the message was
\* enqueued after the keepalive and is the next thing taken
MessageQueuedAfterKeepalive ==
    \E s \in SessionIds :
        /\ wire[s].frame = KeepaliveFrame
        /\ genPc[s] = "wait"
        /\ connected[s]
        /\ s \in Registered
        /\ queues[s] # <<>>

\* C12: the step in which the queue wait times out writes the keepalive and
\* moves the generator on, and changes nothing else: no queue, no registry
\* entry, no issued id, no cleanup task, no connection, and no intake call,
\* whether finished or still being processed.
TimeoutOnlyEmitsKeepalive ==
    [][\A s \in SessionIds :
          TimedOut(s) =>
             /\ queues' = queues
             /\ sse_sessions' = sse_sessions
             /\ issued' = issued
             /\ cleanupPc' = cleanupPc
             /\ connected' = connected
             /\ endCause' = endCause
             /\ callVars' = callVars
             /\ \A t \in SessionIds \ {s} :
                   genPc'[t] = genPc[t] /\ wire'[t] = wire[t]]_vars

\* a keepalive is the frame just written on the stream of a session while
\* an intake call for that session is between its lookup and its body
KeepaliveWhileCallInFlight ==
    \E s \in SessionIds, c \in Calls :
        /\ wire[s].frame = KeepaliveFrame
        /\ genPc[s] = "check"
        /\ callPc[c] = "parsing"
        /\ callSid[c] = s

\* C13: a connect that is answered 401 has a credential that is missing or
\* is the key of no active row, and its step changes nothing but the record
\* of the rejection: no registry entry, no issued id, no queue, no generator,
\* no cleanup task, no frame; every session in the registry belongs to the
\* user of a valid credential.
RejectedConnectAllocatesNothing ==
    /\ [][Len(sseRejections') > Len(sseRejections) =>
            /\ sse_sessions' = sse_sessions
            /\ issued' = issued
            /\ queues' = queues
            /\ streamVars' = streamVars
            /\ callVars' = callVars]_vars
    /\ [](\A i \in 1..Len(sseRejections) :
            LET r == sseRejections[i]
            IN  /\ r.status = 401
                /\ \/ SseApiKey(r.request) = NoKey
                   \/ validate_api_key(SseApiKey(r.request)) = NoUser)
    /\ [](\A s \in Registered :
            /\ sse_sessions[s].user_id # NoUser
            /\ \E r \in ApiKeyTable :
                  r.is_active /\ r.user_id = sse_sessions[s].user_id)

\* a connect without a credential and a connect with an invalid one were
\* both rejected while a session was registered
BothRejectionsBesideSession ==
    /\ Registered # {}
    /\ \E i, j \in 1..Len(sseRejections) :
          /\ sseRejections[i].detail = "API key required"
          /\ sseRejections[j].detail = "Invalid API key"

\* C14: every registry entry is the complete record of its session, and the
\* lookup of an intake call either finds the id registered and takes that
\* complete record (identity and queue), or finds it not registered and
\* answers with the invalid-session envelope; a lookup never ends in a
\* fault, whatever the cleanup of that session has done before or does
\* after.
LookupSeesSessionOrCleanMiss ==
    /\ [](\A s \in Registered :
            /\ sse_sessions[s].queue = s
            /\ sse_sessions[s].user_id # NoUser
            /\ sse_sessions[s].app_id = DEFAULT_APP_ID
            /\ sse_sessions[s].client \in Clients)
    /\ [][\A c \in Calls :
            (callPc[c] = "idle" /\ callPc'[c] # "idle") =>
               \/ /\ callSid'[c] \in Registered
                  /\ callPc'[c] = "parsing"
                  /\ callSession'[c] = sse_sessions[callSid'[c]]
                  /\ callSession'[c].queue = callSid'[c]
                  /\ callSession'[c].user_id # NoUser
                  /\ httpReply'[c] = NoReply
               \/ /\ callSid'[c] \notin Registered
                  /\ callPc'[c] = "done"
                  /\ callSession'[c] = NoSession
                  /\ httpReply'[c] = InvalidSession]_vars

\* the lookup of one call found the session, the cleanup of the session ran
\* while that call was waiting for its body, and the lookup of a later call
\* for the same id missed
LookupsAroundCleanup ==
    \E c, d \in Calls :
        /\ callPc[c] = "parsing"
        /\ callSession[c].queue = callSid[c]
        /\ cleanupPc[callSid[c]] = "done"
        /\ callSid[d] = callSid[c]
        /\ httpReply[d] = InvalidSession

(***************************************************************************)
(* Properties of the error replies, the dispatcher and the direct RPC      *)
(* endpoint.                                                               *)
(***************************************************************************)
\* the request the direct endpoint has just answered reached the dispatcher
\* as a JSON object with this method
RpcDispatched(method) ==
    /\ rpcCount' = rpcCount + 1
    /\ rpcRequest'.body.shape = "object"
    /\ rpcRequest'.body.method = method

\* C15 as claimed: every rejection of an SSE connect, every reply of the
\* direct endpoint to a request without a valid credential and every reply
\* of the intake endpoint to an unregistered session id is a JSON-RPC error
\* envelope whose code is none of the standard codes of the protocol.
TransportErrorsUseCustomCode ==
    LET Standard == {-32700, -32600, -32601, -32602, -32603}
        CustomEnvelope(reply) ==
            /\ reply.status = 200
            /\ reply.body = "rpc"
            /\ reply.rpc.tag = "error"
            /\ reply.rpc.code \notin Standard
    IN  /\ \A i \in 1..Len(sseRejections) : CustomEnvelope(sseRejections[i])
        /\ \A c \in Calls :
              (callPc[c] = "done" /\ callSession[c] = NoSession) =>
                 CustomEnvelope(httpReply[c])
        /\ (rpcCount > 0 /\ validate_api_key(RpcApiKey(rpcRequest)) = NoUser) =>
              CustomEnvelope(rpcReply)

\* C16 as claimed: no request to the intake endpoint for a live session and
\* no authenticated request to the direct endpoint ends in a fault: the
\* intake call is acknowledged, the direct call is answered with an
\* envelope.
NoExceptionEscapesHandler ==
    /\ \A c \in Calls :
          (callPc[c] = "done" /\ callSession[c] # NoSession) =>
             httpReply[c] = Ack
    /\ (rpcCount > 0 /\ validate_api_key(RpcApiKey(rpcRequest)) # NoUser) =>
          rpcReply.body = "rpc"

\* C17 as claimed: a body that cannot be parsed gets the code -32700, in the
\* reply of the direct endpoint and in the message the intake endpoint
\* queues for it.
UnparsableBodyIsParseError ==
    /\ [][\A c \in Calls :
            (callPc[c] = "parsing" /\ callPc'[c] = "done"
                /\ callBody'[c] = BodyUnparsable) =>
               LET q == callSession[c].queue
               IN  /\ Len(queues'[q]) = Len(queues[q]) + 1
                   /\ queues'[q][Len(queues'[q])].tag = "error"
                   /\ queues'[q][Len(queues'[q])].code = -32700]_vars
    /\ [](rpcRequest.body = BodyUnparsable =>
            /\ rpcReply.body = "rpc"
            /\ rpcReply.rpc.tag = "error"
            /\ rpcReply.rpc.code = -32700)

\* C18: a request whose method is none of initialize, tools/list and
\* tools/call, a missing method included, is answered with the error -32601
\* whose message names that method and which carries the id of the request;
\* no tool handler is invoked and Storage and Search are as before.
UnknownMethodIsMethodNotFound ==
    [][\A method \in {b.method : b \in RpcBodies}
                        \ {"initialize", "tools/list", "tools/call"} :
          RpcDispatched(method) =>
             /\ rpcReply' = RpcReply(ErrorMsg(rpcRequest'.body.id, -32601,
                                       <<"Method not found: ", method>>))
             /\ rpcHandler' = NoHandler
             /\ memories' = memories
             /\ vector_store' = vector_store]_vars

\* a request without a method was answered -32601 naming None while a
\* memory was stored
MissingMethodRefusedBesideMemory ==
    /\ rpcRequest.body.shape = "object"
    /\ rpcRequest.body.method = NoneStr
    /\ rpcReply.rpc = ErrorMsg("7", -32601, <<"Method not found: ", NoneStr>>)
    /\ memories # <<>>

\* C19: a tools/call whose params are an object, or absent, and name none
\* of add_memory, search_memories, list_memories (or no tool at all) is
\* answered with the error -32602 carrying the id of the request; no tool
\* handler is invoked and Storage and Search are as before.
UnknownToolIsInvalidParams ==
    [][(/\ RpcDispatched("tools/call")
        /\ rpcRequest'.body.params.shape # "array"
        /\ rpcRequest'.body.params.name \notin
              {"add_memory", "search_memories", "list_memories"}) =>
           /\ rpcReply'.body = "rpc"
           /\ rpcReply'.rpc.tag = "error"
           /\ rpcReply'.rpc.code = -32602
           /\ rpcReply'.rpc.id = rpcRequest'.body.id
           /\ rpcHandler' = NoHandler
           /\ memories' = memories
           /\ vector_store' = vector_store]_vars

\* a call of the tool forget_all was answered -32602 while a memory was
\* stored and indexed
UnknownToolRefusedBesideMemory ==
    /\ rpcRequest.body.method = "tools/call"
    /\ rpcRequest.body.params.name = "forget_all"
    /\ rpcReply.rpc.code = -32602
    /\ rpcHandler = NoHandler
    /\ memories # <<>>
    /\ vector_store # <<>>

CatalogTools == {"add_memory", "search_memories", "list_memories"}

\* the request the direct endpoint has just answered is a tools/call whose
\* params are an object, or absent, and name this tool
ToolCalled(tool_name) ==
    /\ RpcDispatched("tools/call")
    /\ rpcRequest'.body.params.shape # "array"
    /\ rpcRequest'.body.params.name = tool_name

\* C21: when a tool of the catalog is called and its handler, or a
\* collaborator the handler calls, fails (the arguments are no object; the
\* database does not answer a handler that reaches it), the reply is a
\* result that carries the id of the request and whose text starts with
\* "Error: ", never an error envelope and never a fault of the endpoint;
\* Storage and Search are as before.
HandlerFaultIsErrorText ==
    [][\A tool_name \in CatalogTools :
          ToolCalled(tool_name) =>
             LET b == rpcRequest'.body
                 arguments == b.params.arguments
                 ReachesDatabase ==
                     CASE tool_name = "add_memory" -> ~Falsy(arguments.text)
                       [] tool_name = "search_memories" ->
                            ~Falsy(arguments.query) /\ memory_client # "up"
                       [] tool_name = "list_memories" -> TRUE
                 Fails == \/ arguments.shape = "array"
                          \/ database = "down" /\ ReachesDatabase
             IN  /\ rpcReply'.status = 200
                 /\ rpcReply'.body = "rpc"
                 /\ rpcReply'.rpc.tag = "result"
                 /\ rpcReply'.rpc.id = b.id
                 /\ Fails =>
                       /\ Len(rpcReply'.rpc.message) > 3
                       /\ SubSeq(rpcReply'.rpc.message, 1, 3) =
                             <<"content", "text", "Error: ">>
                       /\ memories' = memories
                       /\ vector_store' = vector_store]_vars

\* add_memory was called while the database did not answer, after an
\* earlier memory was stored: the reply is the result "Error: ..." and no
\* second row was written
DatabaseFaultAnsweredAsText ==
    /\ rpcHandler.name = "add_memory"
    /\ rpcReply.rpc = ToolResult("7", <<"Error: ", "OperationalError">>)
    /\ Len(memories) = 1

\* C22: every response of the dispatcher, on each of its branches
\* (initialize, tools/list, a tool result, the "Error: " result of a failed
\* handler, unknown tool, unknown method), carries the id of its request,
\* be it a number, a string or null.
ResponseEchoesRequestId ==
    (/\ rpcRequest.body.shape = "object"
     /\ rpcReply.body = "rpc") =>
        /\ rpcReply.rpc.id = rpcRequest.body.id
        /\ rpcReply.rpc.tag \in {"result", "error"}

\* the "Error: " result of a failed list_memories carries the string id of
\* its request while a memory is stored
StringIdEchoedByFailedTool ==
    /\ rpcRequest.body.id = "req-a"
    /\ rpcHandler.name = "list_memories"
    /\ rpcReply.rpc = ToolResult("req-a", <<"Error: ", "OperationalError">>)
    /\ memories # <<>>

\* the identity of the request the direct endpoint has just answered
Caller == validate_api_key(RpcApiKey(rpcRequest'))

\* the rows of Storage that belong to an identity
RecordsOf(rows, user_id) == SelectSeq(rows, LAMBDA m : m.user_id = user_id)

\* the credentials an identity was provisioned with
CredentialsOf(user_id) == { ApiKeyOf(r) : r \in ApiKeyRecords(user_id) }

\* the text of a response holds this piece
Mentions(response, piece) ==
    \E i \in DOMAIN response.message : response.message[i] = piece

\* C23 as claimed: add_memory with a non-empty text for an identity that
\* has no stored record yet stores the record and returns a text that
\* contains both the id of the new record and a provisioning credential of
\* that identity.
FirstMemoryTextHasIdAndCredential ==
    [][(/\ ToolCalled("add_memory")
        /\ rpcRequest'.body.params.arguments.shape = "object"
        /\ ~Falsy(rpcRequest'.body.params.arguments.text)
        /\ database = "up"
        /\ RecordsOf(memories, Caller) = <<>>) =>
           /\ Len(memories') = Len(memories) + 1
           /\ rpcReply'.rpc.tag = "result"
           /\ Mentions(rpcReply'.rpc, ToString(memories'[Len(memories')].id))
           /\ \E k \in CredentialsOf(Caller) : Mentions(rpcReply'.rpc, k)]_vars

\* the identities that have a credential
Identities == { r.user_id : r \in ApiKeyTable }

\* the responses a step has produced: the reply of the direct endpoint and
\* what was put on the queues of the sessions
NewResponses ==
    (IF rpcCount' = rpcCount + 1 /\ rpcReply'.body = "rpc"
     THEN {rpcReply'.rpc} ELSE {})
    \cup UNION { { queues'[q][i] : i \in (Len(queues[q]) + 1)..Len(queues'[q]) } :
                   q \in SessionIds }

\* C24: over the calls made for an identity through the sessions and
\* through the direct endpoint, a credential of the identity is in the text
\* of a response only when the call has stored the first record of that
\* identity; as the records of Storage are never taken away, there is at
\* most one such call and no later text holds the credential.
CredentialDisclosedWithFirstRecordOnly ==
    [][/\ Len(memories') >= Len(memories)
       /\ SubSeq(memories', 1, Len(memories)) = memories
       /\ \A u \in Identities : \A k \in CredentialsOf(u) :
             (\E m \in NewResponses : Mentions(m, k)) =>
                /\ RecordsOf(memories, u) = <<>>
                /\ Len(RecordsOf(memories', u)) = 1]_vars

\* the first memory was stored through a session, whose queue holds the
\* credential; the next was stored through the direct endpoint, whose reply
\* names the record and holds no credential
DisclosedOnIntakeNotOnDirect ==
    /\ \E q \in SessionIds :
          /\ queues[q] # <<>>
          /\ Mentions(queues[q][1], "k-alice")
    /\ rpcReply.rpc = ToolResult("7", <<"Memory stored successfully. ID: ", "2">>)

\* C25: when add_memory stores its record while the memory client is not
\* there or does not work, the reply is the confirmation all the same: the
\* record is the new last row of Storage, Search is as before, and no step
\* takes a row of Storage away.
SearchFailureLeavesMemoryStored ==
    [][/\ SubSeq(memories', 1, Len(memories)) = memories
       /\ (/\ ToolCalled("add_memory")
           /\ rpcRequest'.body.params.arguments.shape = "object"
           /\ ~Falsy(rpcRequest'.body.params.arguments.text)
           /\ database = "up"
           /\ memory_client \in {"none", "down"}) =>
              /\ rpcReply'.body = "rpc"
              /\ rpcReply'.rpc.tag = "result"
              /\ rpcReply'.rpc.message[3] \in
                    {"Memory stored successfully. ID: ",
                     "Memory stored successfully! This was your first memory. Your API key for future use is: "}
              /\ memories' =
                    Append(memories,
                           [id |-> Len(memories) + 1, user_id |-> Caller,
                            app_id |-> DEFAULT_APP_ID,
                            memory |-> rpcRequest'.body.params.arguments.text])
              /\ vector_store' = vector_store]_vars

\* two memories were stored and confirmed while the memory client raised:
\* Storage holds both, Search none
StoredTwiceIndexedNever ==
    /\ memory_client = "down"
    /\ Len(memories) = 2
    /\ vector_store = <<>>
    /\ rpcHandler.name = "add_memory"
    /\ rpcReply.rpc = ToolResult("7", <<"Memory stored successfully. ID: ", "2">>)

\* the request the direct endpoint has just answered is a search_memories
\* with arguments that are an object and a query that is not empty
Searched ==
    /\ ToolCalled("search_memories")
    /\ rpcRequest'.body.params.arguments.shape = "object"
    /\ ~Falsy(rpcRequest'.body.params.arguments.query)

\* C26: search_memories with a non-empty query asks Search first: while the
\* memory client works the answer is made of what Search holds.  When the
\* memory client raises (or there is none) the answer is made of the rows of
\* Storage that belong to the caller and whose text contains the query:
\* the reply is the result with the text of the database search, not an
\* error.
SearchFallsBackToStorage ==
    [][Searched =>
          LET b == rpcRequest'.body
              query == b.params.arguments.query
              indexed == SelectSeq(vector_store,
                           LAMBDA v : v.user_id = Caller /\ Matches(v.memory, query))
              stored == SelectSeq(memories,
                           LAMBDA m : m.user_id = Caller /\ Matches(m.memory, query))
              Found(lines) ==
                  ToolResult(b.id, <<"Found ", ToString(Len(lines)), " memories:">>
                                      \o NumberedLines(lines, 1))
          IN  /\ (memory_client = "up" /\ indexed # <<>>) =>
                    rpcReply'.rpc =
                       Found([i \in 1..Len(indexed) |->
                                <<indexed[i].memory, " (relevance: score)">>])
              /\ (memory_client \in {"down", "none"} /\ database = "up"
                     /\ stored # <<>>) =>
                    rpcReply'.rpc =
                       Found([i \in 1..Len(stored) |-> <<stored[i].memory>>])]_vars

\* a memory that is stored and not indexed was found by a query in another
\* case while the memory client raised
FoundInStorageWhileSearchDown ==
    /\ memory_client = "down"
    /\ vector_store = <<>>
    /\ rpcRequest.body.params = Params("search_memories", Arguments(NoneStr, "ELL"))
    /\ rpcReply.rpc =
          ToolResult("7", <<"Found ", "1", " memories:", "1", ". ", "hello">>)

\* C27: a search_memories whose query matches nothing, in Search while the
\* memory client works, in Storage when the database search is made, is
\* answered with the result whose text says that no memories were found,
\* not with an error; Storage and Search are as before.
NoMatchIsResultNotError ==
    [][Searched =>
          LET b == rpcRequest'.body
              query == b.params.arguments.query
              indexed == SelectSeq(vector_store,
                           LAMBDA v : v.user_id = Caller /\ Matches(v.memory, query))
              stored == SelectSeq(memories,
                           LAMBDA m : m.user_id = Caller /\ Matches(m.memory, query))
          IN  (\/ memory_client = "up" /\ indexed = <<>>
               \/ memory_client # "up" /\ database = "up" /\ stored = <<>>) =>
                 /\ rpcReply'.status = 200
                 /\ rpcReply'.rpc =
                       ToolResult(b.id, <<"No memories found matching your query.">>)
                 /\ memories' = memories
                 /\ vector_store' = vector_store]_vars

\* a query that matches no memory was answered with the text of no matches
\* while a memory of the caller was stored and indexed
NothingFoundBesideMemory ==
    /\ rpcRequest.body.params = Params("search_memories", Arguments(NoneStr, "zzz"))
    /\ rpcReply.rpc = ToolResult("7", <<"No memories found matching your query.">>)
    /\ \E i \in DOMAIN memories : memories[i].user_id = "alice"
    /\ \E i \in DOMAIN vector_store : vector_store[i].user_id = "alice"

\* C28: list_memories answers with the records of the caller only, at most
\* limit of them (10 when no limit is given), the most recently created
\* ones, the newest first, each with its time of creation (here its place
\* in the order of creation); a caller without records gets the text that
\* says so, as a result.
ListIsNewestFirstUpToLimit ==
    [][(/\ ToolCalled("list_memories")
        /\ rpcRequest'.body.params.arguments.shape # "array"
        /\ database = "up") =>
          LET b == rpcRequest'.body
              given == b.params.arguments.limit
              limit == IF given = NoLimit THEN ListDefaultLimit ELSE given
              own == RecordsOf(memories, Caller)
              n == IF Len(own) < limit THEN Len(own) ELSE limit
              Nth(i) == own[Len(own) + 1 - i]
              lines == [i \in 1..n |->
                          <<"[", ToString(Nth(i).id), "] ", Nth(i).memory>>]
          IN  /\ rpcReply'.status = 200
              /\ rpcReply'.rpc =
                    IF own = <<>>
                    THEN ToolResult(b.id, <<"You have no stored memories yet.">>)
                    ELSE ToolResult(b.id,
                           <<"Your ", ToString(n), " most recent memories:">>
                              \o NumberedLines(lines, 1))
              /\ memories' = memories]_vars

\* the caller has stored two memories and a list_memories with the limit 1
\* shows the second alone
NewestOfTwoListed ==
    /\ Len(RecordsOf(memories, "alice")) = 2
    /\ rpcRequest.body.params = Params("list_memories", LimitArguments(NoneStr, 1))
    /\ rpcReply.rpc =
          ToolResult("7", <<"Your ", "1", " most recent memories:",
                            "1", ". ", "[", "2", "] ", "hello">>)

\* C29: a call of the direct endpoint with a valid credential leaves the
\* registry of sessions, the queues and the streams as they are, and, when
\* the dispatcher returns a response for the request, the HTTP reply is
\* that response: the one message the intake endpoint would put on the
\* queue of a session of the same identity for the same request.
DirectReplyIsDispatcherResponse ==
    [][(rpcCount' = rpcCount + 1 /\ Caller # NoUser) =>
          /\ UNCHANGED <<sse_sessions, issued, queues, streamVars, callVars>>
          /\ rpcRequest'.body.shape = "object" =>
                LET b == rpcRequest'.body
                    r == process_mcp_request(b.method, b.params, b.id,
                                             Caller, DEFAULT_APP_ID)
                    session == [user_id |-> Caller, app_id |-> DEFAULT_APP_ID,
                                client |-> "claude", queue |-> 1]
                IN  ~r.raised =>
                       /\ rpcReply' = RpcReply(r.response)
                       /\ IntakeOutcome(b, session).put = <<rpcReply'.rpc>>
                       /\ memories' = r.memories
                       /\ vector_store' = r.vector_store]_vars

\* a session of the caller holds a queued response and is attached to its
\* stream while the direct endpoint has answered a list_memories with the
\* memory that was stored through the session
DirectCallBesideQueuedSession ==
    /\ \E q \in Registered :
          /\ sse_sessions[q].user_id = "alice"
          /\ Len(queues[q]) = 1
          /\ queues[q][1].tag = "result"
    /\ rpcRequest.body.params = Params("list_memories", NoArguments)
    /\ rpcReply.rpc =
          ToolResult("7", <<"Your ", "1", " most recent memories:",
                            "1", ". ", "[", "1", "] ", "hello">>)

\* C30 as claimed: the direct endpoint takes the credential from where the
\* SSE endpoint takes it, a Bearer token of the Authorization header
\* included: a request whose credential the SSE endpoint would accept is
\* not refused; its body is read and handed to the dispatcher.
BearerAuthenticatesDirectCall ==
    (/\ rpcCount > 0
     /\ validate_api_key(SseApiKey(rpcRequest)) # NoUser) =>
        /\ rpcRequest.body # NoBody
        /\ rpcReply # RpcReply(ErrorMsg(NullId, -32700, <<"API key required">>))

(***************************************************************************)
(* Properties of the sessions under concurrent calls.                      *)
(***************************************************************************)
\* C31 as claimed: no acknowledged response is left in a queue that no
\* stream drains: the queue of a session whose stream has ended, and is
\* therefore never read again, holds nothing, whenever the calls for the
\* session arrived (before the disconnect, or in the grace period between
\* the end of the stream and the removal of the entry).
AcknowledgedResponseNeverStranded ==
    \A s \in SessionIds : genPc[s] = "ended" => queues[s] = <<>>

\* C32: the step of an intake call for a session changes no registry entry,
\* writes no frame and leaves the queue of every other session as it was;
\* what it puts on a queue it puts on the queue of the session id it was
\* posted to.  A stream writes as data frames only what it takes from the
\* queue of its own session, and taking it touches no other queue: a
\* response enqueued for one session is never written on the stream of
\* another.
IntakeTouchesOwnSessionOnly ==
    [][/\ \A c \in Calls :
             callPc'[c] # callPc[c] =>
                /\ sse_sessions' = sse_sessions
                /\ wire' = wire
                /\ genPc' = genPc
                /\ \A b \in SessionIds \ {callSid'[c]} : queues'[b] = queues[b]
                /\ callSession'[c] # NoSession =>
                      callSession'[c].queue = callSid'[c]
       /\ \A b \in SessionIds :
             (wire'[b] # wire[b] /\ wire'[b].frame.type = "data") =>
                /\ queues[b] # <<>>
                /\ wire'[b].frame.msg = Head(queues[b])
                /\ \A a \in SessionIds \ {b} :
                      queues'[a] = queues[a] /\ wire'[a] = wire[a]]_vars

\* two sessions are attached to their streams; the response to a call for
\* the one is the data frame on its stream, while the other has had nothing
\* but its endpoint frame and an empty queue
ResponseOnOwnStreamOnly ==
    \E a, b \in SessionIds, c \in Calls :
        /\ a # b
        /\ Attached(a) /\ Attached(b)
        /\ callSid[c] = a
        /\ httpReply[c] = Ack
        /\ wire[a].frame.type = "data"
        /\ wire[b].first
        /\ queues[b] = <<>>

\* C33: a session is registered from its connect, before its endpoint frame
\* is written, until after its stream has ended: while the stream is
\* attached the id is in the registry, an entry leaves the registry only
\* when the generator has returned, and the lookup of an intake POST to the
\* id of an attached stream finds the session and does not answer with the
\* invalid-session error.
AdvertisedSessionIsRegistered ==
    /\ [](\A s \in SessionIds :
            /\ Attached(s) => s \in Registered
            /\ wire[s] # Silent => s \in Registered)
    /\ [][/\ \A s \in SessionIds :
                (s \in Registered /\ s \notin Registered') =>
                   genPc[s] = "ended" /\ wire[s] = Silent
          /\ \A c \in Calls :
                (callPc[c] = "idle" /\ callPc'[c] # "idle"
                    /\ Attached(callSid'[c])) =>
                   /\ callPc'[c] = "parsing"
                   /\ callSession'[c] = sse_sessions[callSid'[c]]
                   /\ httpReply'[c] # InvalidSession]_vars

\* a POST to a session was acknowledged while the only frame its stream
\* has written is the endpoint frame
PostRightAfterEndpointFrame ==
    \E c \in Calls :
        /\ callPc[c] = "done"
        /\ httpReply[c] = Ack
        /\ wire[callSid[c]].first
        /\ Attached(callSid[c])
        /\ queues[callSid[c]] # <<>>

\* C34: a message leaves a queue exactly in the step in which the generator
\* of that session writes it as a data frame: a queue loses a message only
\* so, one at a time, and the generator writes a data frame only by taking
\* the message off its queue, so that no message is written twice; and a
\* queue gains a message only in the step of an intake call that was posted
\* to that session, so that every data frame was enqueued by such a call.
MessageLeavesQueueWhenEmitted ==
    [][\A s \in SessionIds :
          LET Emitted == /\ genPc[s] = "wait"
                         /\ genPc'[s] = "check"
                         /\ wire'[s].frame.type = "data"
          IN  /\ Len(queues'[s]) < Len(queues[s]) => Emitted
              /\ (wire'[s] # wire[s] /\ wire'[s].frame.type = "data") => Emitted
              /\ Emitted =>
                    /\ queues[s] # <<>>
                    /\ wire'[s].frame = DataFrame(Head(queues[s]))
                    /\ queues'[s] = Tail(queues[s])
              /\ Len(queues'[s]) > Len(queues[s]) =>
                    /\ Len(queues'[s]) = Len(queues[s]) + 1
                    /\ \E c \in Calls :
                          /\ callPc[c] = "parsing"
                          /\ callPc'[c] = "done"
                          /\ callSid[c] = s]_vars

\* the one response that was enqueued for a session is the data frame its
\* stream has written, the queue is empty again and the generator waits
EmittedAndGoneFromQueue ==
    \E s \in SessionIds :
        /\ genPc[s] = "wait"
        /\ wire[s].frame.type = "data"
        /\ queues[s] = <<>>
        /\ Cardinality({ c \in Calls : callSid[c] = s /\ httpReply[c] = Ack }) = 1

\* C35: when the generator finds its client disconnected it leaves the loop
\* in that step, writing nothing and taking nothing from the queue, whatever
\* the queue holds.  From then on the stream writes no frame, the generator
\* stays ended and never reads the queue, to which calls may still add; the
\* entry of the session is not changed but removed, by its cleanup, and
\* never comes back.
NothingEmittedAfterDisconnect ==
    [][\A s \in SessionIds :
          /\ (genPc[s] = "check" /\ ~connected[s] /\ genPc'[s] # "check") =>
                /\ genPc'[s] = "ended"
                /\ endCause'[s] \in {"disconnect", "cancelled", "exception"}
                /\ wire'[s] = Silent
                /\ queues'[s] = queues[s]
          /\ genPc[s] = "ended" =>
                /\ genPc'[s] = "ended"
                /\ endCause'[s] = endCause[s]
                /\ wire[s] = Silent /\ wire'[s] = Silent
                /\ Len(queues'[s]) >= Len(queues[s])
                /\ SubSeq(queues'[s], 1, Len(queues[s])) = queues[s]
                /\ s \in Registered' =>
                      s \in Registered /\ sse_sessions'[s] = sse_sessions[s]
                /\ (s \in Registered /\ s \notin Registered') =>
                      cleanupPc[s] = "added" /\ cleanupPc'[s] = "done"]_vars

\* the loop of a session saw the disconnect while a response was in its
\* queue; the response is still there when the entry has been removed
QueuedResponseLeftAtDisconnect ==
    \E s \in SessionIds :
        /\ endCause[s] = "disconnect"
        /\ queues[s] # <<>>
        /\ cleanupPc[s] = "done"
        /\ s \notin Registered

\* C36: the identity of a session is set at its connect and never changes
\* while the session is registered; an intake call takes the record of the
\* session it was posted to and keeps it; and its request is dispatched
\* under the user and the app of that record, whatever the body: the rows
\* it stores belong to that user and that app, and the response it queues
\* is the dispatcher's response for that identity.
IntakeRunsUnderSessionIdentity ==
    [][/\ \A s \in SessionIds :
             /\ (s \in Registered /\ s \in Registered') =>
                   /\ sse_sessions'[s].user_id = sse_sessions[s].user_id
                   /\ sse_sessions'[s].app_id = sse_sessions[s].app_id
             /\ (s \notin Registered /\ s \in Registered') =>
                   /\ sse_sessions'[s].user_id \in Identities
                   /\ sse_sessions'[s].app_id = DEFAULT_APP_ID
       /\ \A c \in Calls :
             /\ (callPc[c] = "idle" /\ callPc'[c] = "parsing") =>
                   callSession'[c] = sse_sessions[callSid'[c]]
             /\ callPc[c] # "idle" => callSession'[c] = callSession[c]
             /\ (callPc[c] = "parsing" /\ callPc'[c] = "done") =>
                   LET owner == callSession[c]
                       b == callBody'[c]
                       r == process_mcp_request(b.method, b.params, b.id,
                                                owner.user_id, owner.app_id)
                   IN  /\ \A i \in (Len(memories) + 1)..Len(memories') :
                             /\ memories'[i].user_id = owner.user_id
                             /\ memories'[i].app_id = owner.app_id
                       /\ (b.shape = "object" /\ ~r.raised) =>
                             queues'[callSid[c]] =
                                Append(queues[callSid[c]], r.response)]_vars

\* two users have a session each; a memory was stored through the session
\* that was opened first and belongs to the user of that session
StoredUnderOwnerOfSession ==
    \E a, b \in Registered, c \in Calls :
        /\ a < b
        /\ sse_sessions[a].user_id # sse_sessions[b].user_id
        /\ callSid[c] = a
        /\ httpReply[c] = Ack
        /\ Len(memories) = 1
        /\ memories[1].user_id = sse_sessions[a].user_id

\* C37: when the body of an intake call for a session that was found is a
\* JSON object and its processing raises (a tools/call whose params are no
\* object), the call puts on the queue of that session the one error -32603
\* "Internal error" with the id of the request and nothing else, and its
\* HTTP reply is the acknowledgement; the HTTP reply of a call whose body is
\* an object is always the acknowledgement.
FaultAfterParseQueuedAsInternalError ==
    [][\A c \in Calls :
          (/\ callPc[c] = "parsing"
           /\ callPc'[c] = "done"
           /\ callBody'[c].shape = "object") =>
             LET b == callBody'[c]
                 q == callSid[c]
             IN  /\ httpReply'[c] = Ack
                 /\ (b.method = "tools/call" /\ b.params.shape = "array") =>
                       /\ queues'[q] =
                             Append(queues[q],
                                    ErrorMsg(b.id, -32603, <<"Internal error">>))
                       /\ \A s \in SessionIds \ {q} : queues'[s] = queues[s]
                       /\ memories' = memories]_vars

\* a tools/call whose params are a list was acknowledged, and the error
\* -32603 with its id is the data frame on the stream of its session
InternalErrorDeliveredOnStream ==
    \E c \in Calls :
        /\ callBody[c] = BodyObject("tools/call", ArrayParams, "req-a")
        /\ httpReply[c] = Ack
        /\ wire[callSid[c]].frame =
              DataFrame(ErrorMsg("req-a", -32603, <<"Internal error">>))

\* what an identity is shown: the texts of list_memories and of
\* search_memories, for each query, as the handlers give them in the
\* current state
ViewOf(user_id) ==
    <<handle_list_memories(user_id, DEFAULT_APP_ID, NoArguments).text,
      handle_list_memories(user_id, DEFAULT_APP_ID, LimitArguments(NoneStr, 1)).text,
      handle_search_memories(user_id, DEFAULT_APP_ID, Arguments(NoneStr, "hello")).text,
      handle_search_memories(user_id, DEFAULT_APP_ID, Arguments(NoneStr, "world")).text>>

\* C38: a call of one identity changes what no other identity is shown:
\* the rows of Storage and the entries of Search that belong to another
\* identity are as before, and so are the texts that list_memories and
\* search_memories, through Search or through the database, give that
\* identity.
OtherIdentityViewUnchanged ==
    [][rpcCount' = rpcCount + 1 =>
          \A u \in Identities \ {Caller} :
             /\ RecordsOf(memories', u) = RecordsOf(memories, u)
             /\ SelectSeq(vector_store', LAMBDA v : v.user_id = u) =
                   SelectSeq(vector_store, LAMBDA v : v.user_id = u)
             /\ ViewOf(u)' = ViewOf(u)]_vars

\* a user has listed its memories after another user stored one: Storage
\* and Search hold the memories of both, the list shows the caller's alone
ListedBesideMemoryOfAnother ==
    /\ \E i \in DOMAIN memories : memories[i].user_id = "bob"
    /\ \E i \in DOMAIN vector_store : vector_store[i].user_id = "bob"
    /\ memories[Len(memories)].user_id = "bob"
    /\ validate_api_key(RpcApiKey(rpcRequest)) = "alice"
    /\ rpcRequest.body.params = Params("list_memories", NoArguments)
    /\ rpcReply.rpc =
          ToolResult("7", <<"Your ", "1", " most recent memories:",
                            "1", ". ", "[", "1", "] ", "hello">>)

\* C39: initialize and tools/list change nothing: Storage, Search, the
\* registry and the queues are as before and no tool handler is invoked;
\* and their result is the same for every caller and after every history,
\* but for the id it echoes: the protocol version, server identity and
\* capabilities for initialize, the three descriptors add_memory,
\* search_memories, list_memories for tools/list.
InitializeAndToolsListArePure ==
    [][\A method \in {"initialize", "tools/list"} :
          RpcDispatched(method) =>
             /\ rpcReply'.status = 200
             /\ rpcReply'.rpc =
                   [id |-> rpcRequest'.body.id, tag |-> "result", code |-> 0,
                    message |->
                       IF method = "initialize"
                       THEN <<"protocolVersion", "2025-06-18",
                              "serverInfo", "openmemory-mcp-server", "1.0.0",
                              "capabilities", "tools">>
                       ELSE <<"tools", "add_memory", "search_memories",
                              "list_memories">>]
             /\ rpcHandler' = NoHandler
             /\ memories' = memories
             /\ vector_store' = vector_store
             /\ sse_sessions' = sse_sessions
             /\ queues' = queues]_vars

\* the second user, who has stored nothing, asked for the tools while the
\* database did not answer and another user's memory was stored, and got
\* the three descriptors
CatalogForUserWithoutMemories ==
    /\ validate_api_key(RpcApiKey(rpcRequest)) = "bob"
    /\ rpcRequest.body.method = "tools/list"
    /\ rpcReply.rpc = ResultMsg("7", ToolCatalog)
    /\ database = "down"
    /\ memories # <<>>
    /\ RecordsOf(memories, "bob") = <<>>

=============================================================================
